---- MODULE Spec2Model ----
(***************************************************************************)
(* release-watcher: the five checker scripts (rss_checker, youtube_checker, *)
(* crawl_checker, arxiv_checker, release_checker) as one state machine.     *)
(*                                                                          *)
(* One behaviour follows ONE script (prog, fixed by Init) over several      *)
(* scheduled runs: each script has its own HISTORY_FILE and shares nothing  *)
(* with the others.  A run is split at the points where the code calls the  *)
(* outside world (fetch, notifier, file write).                             *)
(*                                                                          *)
(* Time is counted in whole hours since the Unix epoch (UTC).               *)
(* Source names in a config file are taken to be distinct (they are the     *)
(* keys of the History Store).  The history files a behaviour starts from   *)
(* are files the scripts have written, or a file that is not JSON           *)
(* ("corrupt"), or JSON whose top-level value is not of the type the script *)
(* keeps ("shape").  At most MaxFaults fetches and notifier requests fail   *)
(* in one behaviour; a behaviour in which a run is terminated from outside  *)
(* has no other fault.                                                      *)
(*                                                                          *)
(* Spec is the five scripts.  ExtractSpec is one call of                    *)
(* AnthropicExtractor.extract on a page of payload fragments; ArxivFullSpec *)
(* is arxiv_checker on listings longer than the history it keeps.           *)
(***************************************************************************)
EXTENDS Integers, Sequences, FiniteSets, TLC

VARIABLES
  prog,               \* which script this behaviour runs
  config_exists,      \* os.path.exists(CONFIG_FILE)
  credentials,        \* TELEGRAM_BOT_TOKEN and TELEGRAM_CHAT_ID are set
  now,                \* the clock, hours since epoch (UTC)
  upstream,           \* what each source returns when fetched now
  file,               \* HISTORY_FILE of the dict-shaped scripts: name -> list
  arxivFile,          \* HISTORY_FILE of arxiv_checker: one list
  fileState,          \* what json.load makes of HISTORY_FILE: "ok", "corrupt", "shape"
  pc,                 \* position in the run
  si,                 \* index of the source the loop is at (1-based)
  history,            \* in-memory history dict of the run
  updated_history,    \* the dirty flag
  new_items,          \* crawl: the unseen items of the current source
  to_send,            \* items still to hand to the notifier, in send order
  seen,               \* arxiv: history = set(load_history())
  new_history_items,  \* arxiv: ids recorded in this run, in order
  notifications_sent, \* arxiv: the run budget counter
  results,            \* arxiv: papers of the current search not yet looked at
  calls,              \* log: notifier calls of the current (or last) run
  fetchSt,            \* log: per source, what the fetch of this run did
  histBefore,         \* log: history[name] when the current source was entered
  startFile,          \* log: file when the run started
  startArxivFile,     \* log: arxivFile when the run started
  prevUpstream,       \* log: upstream during the last finished run
  sameItems,          \* log: this run started on the previous run's listings
  prevFetchSt,        \* log: fetchSt at the end of the previous run
  failedBefore,       \* log: <<source, identity>> whose send failed earlier
  cutBefore,          \* log: an earlier run stopped on its run budget
  wrote,              \* log: the run has written its HISTORY_FILE
  faults,             \* number of fetches and notifier calls that failed so far
  lost,               \* log: <<source, identity>> delivered in the run before
                      \* this one, which was terminated before it persisted
  finished,           \* log: the last run started came to its end
  settled,            \* log: <<source, identity>> delivered or marked seen in
                      \* a run that came to its end, earlier than this one
  runs,               \* number of runs started
  html,               \* extractors: the payload fragments of the fetched page
  extracted           \* extractors: what extract(html) returned or raised

vars == << prog, config_exists, credentials, now, upstream, file, arxivFile, fileState, pc, si, history,
           updated_history, new_items, to_send, seen, new_history_items,
           notifications_sent, results, calls, fetchSt, histBefore, startFile,
           startArxivFile, prevUpstream, sameItems, prevFetchSt, failedBefore,
           cutBefore, wrote, faults, lost, finished, settled, runs, html,
           extracted >>

-----------------------------------------------------------------------------
(* Bounds of the model *)

MaxRuns == 2          \* runs per behaviour
MaxNow == 101         \* the clock stops advancing here
BigLen == 51          \* length of the long crawl listing
MaxFaults == 2        \* failed fetches and failed notifier requests per behaviour

-----------------------------------------------------------------------------
(* Values *)

Names == {"A", "B", "C"}

\* None, for an identity (item.get("link") / entry.get("id", entry.get("link")))
NoId == 0

\* datetime.fromtimestamp(0, tz=utc)
Epoch == 0

\* A raw date string as the adapters hand it over: absent (key missing, None
\* or ""), unparseable, or a wall-clock hour with an optional UTC offset.
NoDate == [k |-> "absent", wall |-> 0, off |-> 0]
BadDate == [k |-> "bad", wall |-> 0, off |-> 0]
Naive(h) == [k |-> "naive", wall |-> h, off |-> 0]
Aware(h, o) == [k |-> "aware", wall |-> h, off |-> o]

\* One normalized item.  gid: the feed entry's "id" (arxiv: the short id;
\* release: tag_name), link: its link, both NoId when absent.  match: the
\* arxiv searches whose keywords the paper matches.
Item(g, l, p, u) ==
  [gid |-> g, link |-> l, published |-> p, updated |-> u, short |-> FALSE,
   match |-> {}]

\* An entry of the History Store dict: whether the key exists, and its list.
NoKey == [has |-> FALSE, ids |-> <<>>]
Key(s) == [has |-> TRUE, ids |-> s]

Range(s) == {s[i] : i \in 1..Len(s)}

\* the slice left out: the whole list
LastN_Whole(s, n) == s

\* s[-n:] for n > 0
LastN(s, n) == IF Len(s) > n THEN SubSeq(s, Len(s) - n + 1, Len(s)) ELSE s

\* reversed(s)
Reverse(s) == [i \in 1..Len(s) |-> s[Len(s) + 1 - i]]

\* ids 'from'..'to' as a list: identities of items no longer listed
Filler(from, to) == [i \in 1..(to - from + 1) |-> from + i - 1]

-----------------------------------------------------------------------------
(* Sorting: list.sort is stable; with reverse=True equal keys keep their     *)
(* original relative order too.  Both sorts work on records with the key in  *)
(* field t.  SortSeq is an insertion sort: with a strict comparison equal    *)
(* keys never pass each other.                                               *)

SortDesc(s) == SortSeq(s, LAMBDA a, b : a.t > b.t)

\* the ascending sort left out: the list stays as the feed gave it
SortAsc_Unsorted(s) == s

SortAsc(s) == SortSeq(s, LAMBDA a, b : a.t < b.t)

-----------------------------------------------------------------------------
(* Dates *)

\* dateutil's parse followed by the normalisation to UTC: a naive time is
\* taken as UTC, an aware one is converted.  "none" when it cannot be parsed.
ToUtc(d) ==
  IF d.k = "naive" THEN [ok |-> TRUE, t |-> d.wall]
  ELSE IF d.k = "aware" THEN [ok |-> TRUE, t |-> d.wall - d.off]
  ELSE [ok |-> FALSE, t |-> Epoch]

\* crawl_checker.parse_date_safe: epoch when absent or unparseable
parse_date_safe(d) ==
  IF d.k = "absent" THEN Epoch
  ELSE IF ToUtc(d).ok THEN ToUtc(d).t ELSE Epoch

-----------------------------------------------------------------------------
(* Configuration files (the inputs the model runs the scripts on) *)

CrawlConfig ==
  << [name |-> "A", extractor |-> "anthropic"],
     [name |-> "B", extractor |-> "anthropic"] >>

\* check_hours 0 stands for a config entry without the key
RssConfig ==
  << [name |-> "A", check_hours |-> 1],
     [name |-> "B", check_hours |-> 0] >>

YtConfig == << [name |-> "A"], [name |-> "B"] >>

\* keywords: whether the search lists any
ArxivConfig ==
  << [name |-> "A", keywords |-> TRUE],
     [name |-> "B", keywords |-> TRUE],
     [name |-> "C", keywords |-> FALSE] >>

ReleaseConfig == << [name |-> "A"], [name |-> "B"] >>

Config ==
  CASE prog = "crawl" -> CrawlConfig
    [] prog = "arxiv" -> ArxivConfig
    [] prog = "release" -> ReleaseConfig
    [] prog = "rss" -> RssConfig
    [] prog = "youtube" -> YtConfig

\* the source the loop is at
Cur == Config[si]

-----------------------------------------------------------------------------
(* crawl_checker.check_crawlers *)

\* send_telegram_message: 'if not bot_token or not chat_id: return False'
\* comes before the request; with the secrets set the request succeeds or
\* raises (a fault)
Answers(ok) == IF credentials THEN ok \/ faults < MaxFaults ELSE ~ok

\* only a request that failed counts as a fault
FaultsAfter(ok) == IF ok \/ ~credentials THEN faults ELSE faults + 1

\* the Spam Protection threshold: len(new_items) > 3
CRAWL_FLOOD_THRESHOLD == 3
\* len(history[name]) > 50
CRAWL_MAX_HISTORY == 50

\* the sort with reverse=True forgotten: oldest first
CrawlSorted_OldestFirst(items) ==
  LET keyed == [i \in 1..Len(items) |->
                  [t |-> parse_date_safe(items[i].published), x |-> items[i]]]
      sorted == SortAsc(keyed)
  IN  [i \in 1..Len(sorted) |-> sorted[i].x]

\* items.sort(key=parse_date_safe(published_at), reverse=True)
CrawlSorted(items) ==
  LET keyed == [i \in 1..Len(items) |->
                  [t |-> parse_date_safe(items[i].published), x |-> items[i]]]
      sorted == SortDesc(keyed)
  IN  [i \in 1..Len(sorted) |-> sorted[i].x]

\* the new-item filter without its look into the history
CrawlNewItems_IgnoreHistory(items, hist) ==
  SelectSeq(items, LAMBDA item : item.link # NoId)

\* 2. Identify New Items
CrawlNewItems(items, hist) ==
  SelectSeq(items, LAMBDA item : /\ item.link # NoId
                                 /\ item.link \notin Range(hist))

Links(items) == [i \in 1..Len(items) |-> items[i].link]

\* 3. Spam Protection Strategy: what goes to the notifier ...
FloodToSend(new) ==
  IF Len(new) > CRAWL_FLOOD_THRESHOLD THEN << new[1] >> ELSE new

\* the guard marking every new item seen, the one it sends included
FloodMarkedSeen_All(new) ==
  IF Len(new) > CRAWL_FLOOD_THRESHOLD THEN Links(new) ELSE <<>>

\* ... and the identities put into history at once, without notification
FloodMarkedSeen(new) ==
  IF Len(new) > CRAWL_FLOOD_THRESHOLD THEN Links(Tail(new)) ELSE <<>>

\* the flag left as it was by the guard
FloodDirty_Forgotten(dirty, new) == dirty

\* 'updated_history = True  # Mark dirty so we save even if send fails'
FloodDirty(dirty, new) == dirty \/ Len(new) > CRAWL_FLOOD_THRESHOLD

\* the append made whether the notifier succeeded or not
MarkIfSent_Always(h, name, id, ok) ==
  [h EXCEPT ![name] = Key(h[name].ids \o << id >>)]

\* 'if success: history[name].append(identity)' of the send loops
MarkIfSent(h, name, id, ok) ==
  IF ok THEN [h EXCEPT ![name] = Key(h[name].ids \o << id >>)] ELSE h

\* the key set to an empty list whether it exists or not
WithKey_Reset(h, name) == [h EXCEPT ![name] = Key(<<>>)]

\* history with the key of 'name' created when it is missing
WithKey(h, name) ==
  IF h[name].has THEN h ELSE [h EXCEPT ![name] = Key(<<>>)]

AppendIds(h, name, ids) ==
  [h EXCEPT ![name] = Key(h[name].ids \o ids)]

\* the exception of the fetch not caught: the run ends there, nothing is saved
CrawlFetchFailed_Aborts ==
  /\ prog = "crawl" /\ pc = "loop" /\ si <= Len(Config)
  /\ Cur.extractor = "anthropic"
  /\ history' = WithKey(history, Cur.name)
  /\ fetchSt' = [fetchSt EXCEPT ![Cur.name] = "fail"]
  /\ si' = si + 1
  /\ pc' = "idle"
  /\ faults < MaxFaults /\ faults' = faults + 1
  /\ UNCHANGED << html, extracted, settled, prog, config_exists, credentials, lost, finished,
                  fileState, wrote, cutBefore, now, upstream, file, arxivFile,
                  updated_history, new_items, to_send, seen,
                  new_history_items, notifications_sent, results, calls,
                  histBefore, startFile, startArxivFile, prevUpstream,
                  sameItems, prevFetchSt, failedBefore, runs >>

\* the fetch or the extraction raises: the key exists by then, nothing else
CrawlFetchFailed ==
  /\ prog = "crawl" /\ pc = "loop" /\ si <= Len(Config)
  /\ Cur.extractor = "anthropic"
  /\ history' = WithKey(history, Cur.name)
  /\ fetchSt' = [fetchSt EXCEPT ![Cur.name] = "fail"]
  /\ si' = si + 1
  /\ faults < MaxFaults /\ faults' = faults + 1
  /\ UNCHANGED << html, extracted, settled, prog, config_exists, credentials, lost, finished,
                  fileState, wrote, cutBefore, now, upstream, file, arxivFile, pc,
                  updated_history, new_items, to_send, seen,
                  new_history_items, notifications_sent, results, calls,
                  histBefore, startFile, startArxivFile, prevUpstream,
                  sameItems, prevFetchSt, failedBefore, runs >>

\* fetch and extraction succeed: sort, find the new items, apply the flood
\* guard, and enter the send loop (or 'continue' when there is nothing)
CrawlProcess ==
  /\ prog = "crawl" /\ pc = "loop" /\ si <= Len(Config)
  /\ Cur.extractor = "anthropic"
  /\ LET name == Cur.name
         h0 == WithKey(history, name)
         items == CrawlSorted(upstream[name])
         new == CrawlNewItems(items, h0[name].ids)
         flood == Len(new) > CRAWL_FLOOD_THRESHOLD
     IN /\ fetchSt' = [fetchSt EXCEPT ![name] = "ok"]
        /\ IF new = <<>>
           THEN \* 'if not items' or 'if not new_items': continue
                /\ history' = h0
                /\ si' = si + 1
                /\ UNCHANGED << pc, updated_history, new_items, to_send,
                                histBefore >>
           ELSE /\ new_items' = new
                /\ histBefore' = h0[name].ids
                /\ history' = AppendIds(h0, name, FloodMarkedSeen(new))
                /\ updated_history' = FloodDirty(updated_history, new)
                /\ to_send' = Reverse(FloodToSend(new))
                /\ pc' = "send"
                /\ UNCHANGED si
  /\ UNCHANGED << html, extracted, settled, prog, config_exists, credentials, lost, finished,
                  fileState, wrote, cutBefore, faults, now, upstream, file, arxivFile,
                  seen, new_history_items, notifications_sent, results, calls,
                  startFile, startArxivFile, prevUpstream, sameItems,
                  prevFetchSt, failedBefore, runs >>

\* one turn of 'for item in reversed(to_send)': the notifier answers ok
CrawlSend(ok) ==
  /\ prog = "crawl" /\ pc = "send" /\ to_send # <<>>
  /\ LET item == Head(to_send)
         name == Cur.name
     IN /\ calls' = Append(calls, [src |-> name, id |-> item.link,
                                   t |-> parse_date_safe(item.published),
                                   ok |-> ok])
        /\ history' = MarkIfSent(history, name, item.link, ok)
        /\ updated_history' = (updated_history \/ ok)
        /\ to_send' = Tail(to_send)
  /\ Answers(ok)
  /\ faults' = FaultsAfter(ok)
  /\ UNCHANGED << html, extracted, settled, prog, config_exists, credentials, lost, finished,
                  fileState, wrote, cutBefore, now, upstream, file, arxivFile, pc, si,
                  new_items, seen, new_history_items, notifications_sent,
                  results, fetchSt, histBefore, startFile, startArxivFile,
                  prevUpstream, sameItems, prevFetchSt, failedBefore, runs >>

\* the cut followed by a save_history inside the loop
CrawlTruncate_Saves ==
  /\ prog = "crawl" /\ pc = "send" /\ to_send = <<>>
  /\ history' = [history EXCEPT ![Cur.name] =
                   Key(LastN(history[Cur.name].ids, CRAWL_MAX_HISTORY))]
  /\ si' = si + 1
  /\ pc' = "loop"
  /\ file' = history'
  /\ UNCHANGED << html, extracted, settled, prog, config_exists, credentials, lost, finished,
                  fileState, wrote, cutBefore, faults, now, upstream, arxivFile,
                  updated_history, new_items, to_send, seen,
                  new_history_items, notifications_sent, results, calls,
                  fetchSt, histBefore, startFile, startArxivFile,
                  prevUpstream, sameItems, prevFetchSt, failedBefore, runs >>

\* after the send loop: 'Keep history manageable', then the next source
CrawlTruncate ==
  /\ prog = "crawl" /\ pc = "send" /\ to_send = <<>>
  /\ history' = [history EXCEPT ![Cur.name] =
                   Key(LastN(history[Cur.name].ids, CRAWL_MAX_HISTORY))]
  /\ si' = si + 1
  /\ pc' = "loop"
  /\ UNCHANGED << html, extracted, settled, prog, config_exists, credentials, lost, finished,
                  fileState, wrote, cutBefore, faults, now, upstream, file, arxivFile,
                  updated_history, new_items, to_send, seen,
                  new_history_items, notifications_sent, results, calls,
                  fetchSt, histBefore, startFile, startArxivFile,
                  prevUpstream, sameItems, prevFetchSt, failedBefore, runs >>

-----------------------------------------------------------------------------
(* rss_checker.check_feeds and youtube_checker.check_feeds *)

\* TARGET_TZ = Asia/Tehran is UTC+3:30: at a whole UTC hour h the local hour
\* field is (h + 3) % 24
TEHRAN_OFFSET_HOURS == 3
\* is_morning_run = 5 <= current_hour_tehran < 7
MORNING_FROM == 5
MORNING_TO == 7
\* feed_config.get("check_hours", 24), and 'check_hours >= 24'
DAILY_HOURS == 24
\* lookback_hours = check_hours * 3
LOOKBACK_FACTOR == 3
\* rss: len(history[name]) > 50
RSS_MAX_HISTORY == 50
\* youtube: hours_lookback = 30
YT_LOOKBACK_HOURS == 30
\* youtube: len(history[name]) > 20
YT_MAX_HISTORY == 20

check_hours(cfg) == IF cfg.check_hours = 0 THEN DAILY_HOURS ELSE cfg.check_hours

is_morning_run ==
  LET current_hour_tehran == (now + TEHRAN_OFFSET_HOURS) % 24
  IN  MORNING_FROM <= current_hour_tehran /\ current_hour_tehran < MORNING_TO

\* get_entry_date (the same function in both scripts): "published", else
\* "updated", else None; None too when the chosen string does not parse
get_entry_date(entry) ==
  IF entry.published.k # "absent" THEN ToUtc(entry.published)
  ELSE IF entry.updated.k # "absent" THEN ToUtc(entry.updated)
  ELSE [ok |-> FALSE, t |-> Epoch]

\* post_id = entry.get("id", entry.get("link"))
PostId(entry) == IF entry.gid # NoId THEN entry.gid ELSE entry.link

\* is_youtube_short(entry): "/shorts/" in the link or "#shorts" in the title
is_youtube_short(entry) == entry.short

\* the same loop with a window one hour shorter
EntriesToSend_ShortWindow(entries, hist, time_threshold, dropShorts) ==
  LET tuples == [i \in 1..Len(entries) |->
                   [t |-> get_entry_date(entries[i]).t, x |-> entries[i],
                    id |-> PostId(entries[i])]]
      Keep(e) == /\ e.id \notin Range(hist)
                 /\ get_entry_date(e.x).ok
                 /\ ~(dropShorts /\ is_youtube_short(e.x))
                 /\ e.t > time_threshold + 1
  IN  SortAsc(SelectSeq(tuples, Keep))

\* the same loop with the threshold itself inside the window
EntriesToSend_Inclusive(entries, hist, time_threshold, dropShorts) ==
  LET tuples == [i \in 1..Len(entries) |->
                   [t |-> get_entry_date(entries[i]).t, x |-> entries[i],
                    id |-> PostId(entries[i])]]
      Keep(e) == /\ e.id \notin Range(hist)
                 /\ get_entry_date(e.x).ok
                 /\ ~(dropShorts /\ is_youtube_short(e.x))
                 /\ e.t >= time_threshold
  IN  SortAsc(SelectSeq(tuples, Keep))

\* the loop over feed.entries that fills entries_to_send, then its sort by date
EntriesToSend(entries, hist, time_threshold, dropShorts) ==
  LET tuples == [i \in 1..Len(entries) |->
                   [t |-> get_entry_date(entries[i]).t, x |-> entries[i],
                    id |-> PostId(entries[i])]]
      Keep(e) == /\ e.id \notin Range(hist)
                 /\ get_entry_date(e.x).ok
                 /\ ~(dropShorts /\ is_youtube_short(e.x))
                 /\ e.t > time_threshold
  IN  SortAsc(SelectSeq(tuples, Keep))

\* the key created before the test of the window
RssSkip_KeyFirst ==
  /\ prog = "rss" /\ pc = "loop" /\ si <= Len(Config)
  /\ check_hours(Cur) >= DAILY_HOURS /\ ~is_morning_run
  /\ fetchSt' = [fetchSt EXCEPT ![Cur.name] = "skip"]
  /\ si' = si + 1
  /\ history' = WithKey(history, Cur.name)
  /\ UNCHANGED << html, extracted, settled, prog, config_exists, credentials, lost, finished,
                  fileState, wrote, cutBefore, faults, now, upstream, file, arxivFile, pc,
                  updated_history, new_items, to_send, seen,
                  new_history_items, notifications_sent, results, calls,
                  histBefore, startFile, startArxivFile, prevUpstream,
                  sameItems, prevFetchSt, failedBefore, runs >>

\* a daily feed outside the morning window: 'continue' before anything else
RssSkip ==
  /\ prog = "rss" /\ pc = "loop" /\ si <= Len(Config)
  /\ check_hours(Cur) >= DAILY_HOURS /\ ~is_morning_run
  /\ fetchSt' = [fetchSt EXCEPT ![Cur.name] = "skip"]
  /\ si' = si + 1
  /\ UNCHANGED << html, extracted, settled, prog, config_exists, credentials, lost, finished,
                  fileState, wrote, cutBefore, faults, now, upstream, file, arxivFile, pc,
                  history, updated_history, new_items, to_send, seen,
                  new_history_items, notifications_sent, results, calls,
                  histBefore, startFile, startArxivFile, prevUpstream,
                  sameItems, prevFetchSt, failedBefore, runs >>

\* feedparser.parse raises
RssFetchFailed ==
  /\ prog = "rss" /\ pc = "loop" /\ si <= Len(Config)
  /\ ~(check_hours(Cur) >= DAILY_HOURS /\ ~is_morning_run)
  /\ history' = WithKey(history, Cur.name)
  /\ fetchSt' = [fetchSt EXCEPT ![Cur.name] = "fail"]
  /\ si' = si + 1
  /\ faults < MaxFaults /\ faults' = faults + 1
  /\ UNCHANGED << html, extracted, settled, prog, config_exists, credentials, lost, finished,
                  fileState, wrote, cutBefore, now, upstream, file, arxivFile, pc,
                  updated_history, new_items, to_send, seen,
                  new_history_items, notifications_sent, results, calls,
                  histBefore, startFile, startArxivFile, prevUpstream,
                  sameItems, prevFetchSt, failedBefore, runs >>

\* the feed parses: collect and sort entries_to_send
RssProcess ==
  /\ prog = "rss" /\ pc = "loop" /\ si <= Len(Config)
  /\ ~(check_hours(Cur) >= DAILY_HOURS /\ ~is_morning_run)
  /\ LET name == Cur.name
         h0 == WithKey(history, name)
         lookback_hours == check_hours(Cur) * LOOKBACK_FACTOR
         time_threshold == now - lookback_hours
     IN /\ history' = h0
        /\ histBefore' = h0[name].ids
        /\ to_send' = EntriesToSend(upstream[name], h0[name].ids,
                                    time_threshold, FALSE)
        /\ fetchSt' = [fetchSt EXCEPT ![name] = "ok"]
  /\ pc' = "send"
  /\ UNCHANGED << html, extracted, settled, prog, config_exists, credentials, lost, finished,
                  fileState, wrote, cutBefore, faults, now, upstream, file, arxivFile, si,
                  updated_history, new_items, seen, new_history_items,
                  notifications_sent, results, calls, startFile,
                  startArxivFile, prevUpstream, sameItems, prevFetchSt,
                  failedBefore, runs >>

\* one turn of 'for entry_date, entry, post_id in entries_to_send'
RssSend(ok) ==
  /\ prog = "rss" /\ pc = "send" /\ to_send # <<>>
  /\ LET e == Head(to_send)
     IN /\ calls' = Append(calls, [src |-> Cur.name, id |-> e.id, t |-> e.t,
                                   ok |-> ok])
        /\ history' = MarkIfSent(history, Cur.name, e.id, ok)
        /\ updated_history' = (updated_history \/ ok)
        /\ to_send' = Tail(to_send)
  /\ Answers(ok)
  /\ faults' = FaultsAfter(ok)
  /\ UNCHANGED << html, extracted, settled, prog, config_exists, credentials, lost, finished,
                  fileState, wrote, cutBefore, now, upstream, file, arxivFile, pc, si,
                  new_items, seen, new_history_items, notifications_sent,
                  results, fetchSt, histBefore, startFile, startArxivFile,
                  prevUpstream, sameItems, prevFetchSt, failedBefore, runs >>

\* 'Keep history manageable', then the next feed
RssTruncate ==
  /\ prog = "rss" /\ pc = "send" /\ to_send = <<>>
  /\ history' = [history EXCEPT ![Cur.name] =
                   Key(LastN(history[Cur.name].ids, RSS_MAX_HISTORY))]
  /\ si' = si + 1
  /\ pc' = "loop"
  /\ UNCHANGED << html, extracted, settled, prog, config_exists, credentials, lost, finished,
                  fileState, wrote, cutBefore, faults, now, upstream, file, arxivFile,
                  updated_history, new_items, to_send, seen,
                  new_history_items, notifications_sent, results, calls,
                  fetchSt, histBefore, startFile, startArxivFile,
                  prevUpstream, sameItems, prevFetchSt, failedBefore, runs >>

\* youtube: feedparser.parse raises
YtFetchFailed ==
  /\ prog = "youtube" /\ pc = "loop" /\ si <= Len(Config)
  /\ history' = WithKey(history, Cur.name)
  /\ fetchSt' = [fetchSt EXCEPT ![Cur.name] = "fail"]
  /\ si' = si + 1
  /\ faults < MaxFaults /\ faults' = faults + 1
  /\ UNCHANGED << html, extracted, settled, prog, config_exists, credentials, lost, finished,
                  fileState, wrote, cutBefore, now, upstream, file, arxivFile, pc,
                  updated_history, new_items, to_send, seen,
                  new_history_items, notifications_sent, results, calls,
                  histBefore, startFile, startArxivFile, prevUpstream,
                  sameItems, prevFetchSt, failedBefore, runs >>

\* youtube: the feed parses
YtProcess ==
  /\ prog = "youtube" /\ pc = "loop" /\ si <= Len(Config)
  /\ LET name == Cur.name
         h0 == WithKey(history, name)
         time_threshold == now - YT_LOOKBACK_HOURS
     IN /\ history' = h0
        /\ histBefore' = h0[name].ids
        /\ to_send' = EntriesToSend(upstream[name], h0[name].ids,
                                    time_threshold, TRUE)
        /\ fetchSt' = [fetchSt EXCEPT ![name] = "ok"]
  /\ pc' = "send"
  /\ UNCHANGED << html, extracted, settled, prog, config_exists, credentials, lost, finished,
                  fileState, wrote, cutBefore, faults, now, upstream, file, arxivFile, si,
                  updated_history, new_items, seen, new_history_items,
                  notifications_sent, results, calls, startFile,
                  startArxivFile, prevUpstream, sameItems, prevFetchSt,
                  failedBefore, runs >>

\* youtube: one turn of the send loop (the summary only changes the text)
YtSend(ok) ==
  /\ prog = "youtube" /\ pc = "send" /\ to_send # <<>>
  /\ LET e == Head(to_send)
     IN /\ calls' = Append(calls, [src |-> Cur.name, id |-> e.id, t |-> e.t,
                                   ok |-> ok])
        /\ history' = MarkIfSent(history, Cur.name, e.id, ok)
        /\ updated_history' = (updated_history \/ ok)
        /\ to_send' = Tail(to_send)
  /\ Answers(ok)
  /\ faults' = FaultsAfter(ok)
  /\ UNCHANGED << html, extracted, settled, prog, config_exists, credentials, lost, finished,
                  fileState, wrote, cutBefore, now, upstream, file, arxivFile, pc, si,
                  new_items, seen, new_history_items, notifications_sent,
                  results, fetchSt, histBefore, startFile, startArxivFile,
                  prevUpstream, sameItems, prevFetchSt, failedBefore, runs >>

\* youtube: truncation to the last 20, then the next feed
YtTruncate ==
  /\ prog = "youtube" /\ pc = "send" /\ to_send = <<>>
  /\ history' = [history EXCEPT ![Cur.name] =
                   Key(LastN(history[Cur.name].ids, YT_MAX_HISTORY))]
  /\ si' = si + 1
  /\ pc' = "loop"
  /\ UNCHANGED << html, extracted, settled, prog, config_exists, credentials, lost, finished,
                  fileState, wrote, cutBefore, faults, now, upstream, file, arxivFile,
                  updated_history, new_items, to_send, seen,
                  new_history_items, notifications_sent, results, calls,
                  fetchSt, histBefore, startFile, startArxivFile,
                  prevUpstream, sameItems, prevFetchSt, failedBefore, runs >>

-----------------------------------------------------------------------------
(* arxiv_checker.check_arxiv *)

MAX_HISTORY_SIZE == 100
MAX_NOTIFICATIONS_PER_RUN == 5

\* paper.published is a datetime already
Published(paper) == paper.published.wall

\* the test without 'keywords and': a search without keywords records too
NotMatched_NoKeywordTest(search, paper) == search.name \notin paper.match

\* 'keywords and not matched': the search has keywords and none of them
\* occurs in the paper's title or summary
NotMatched(search, paper) == search.keywords /\ search.name \notin paper.match

\* arxiv_checker.load_history: the list in the file; [] when the file is
\* missing, is not JSON (JSONDecodeError caught) or holds no list
arxiv_load_history == IF fileState = "ok" THEN arxivFile ELSE <<>>

\* arxiv_checker.save_history: the last MAX_HISTORY_SIZE entries are written
arxiv_save_history(h) == LastN(h, MAX_HISTORY_SIZE)

RECURSIVE MergeNew(_, _)
\* for item in new_history_items: if item not in original: original.append(item)
MergeNew(original, items) ==
  IF items = <<>> THEN original
  ELSE MergeNew(IF Head(items) \in Range(original) THEN original
                ELSE Append(original, Head(items)),
                Tail(items))

\* the check at the top of the outer loop (for search_config in searches)
BudgetSpentOuter == notifications_sent >= MAX_NOTIFICATIONS_PER_RUN

\* the inner check comparing with > : one notification too late
BudgetSpentInner_OneLate == notifications_sent > MAX_NOTIFICATIONS_PER_RUN

\* the inner check left out
BudgetSpentInner_Never == FALSE

\* the check at the top of the inner loop (for paper in results)
BudgetSpentInner == notifications_sent >= MAX_NOTIFICATIONS_PER_RUN

\* log: what the last run settled, read when the next run starts: the
\* identities the notifier accepted, those the flood guard of check_crawlers
\* marked seen (the run read the listing prevUpstream and started from
\* startFile), and for check_arxiv everything in new_history_items (one
\* history for all searches)
SettledInRun ==
  LET delivered == {<< calls[i].src, calls[i].id >> :
                      i \in {j \in 1..Len(calls) : calls[j].ok}}
  IN  CASE prog = "arxiv" ->
             {<< n, id >> : n \in Names, id \in Range(new_history_items)}
        [] prog = "crawl" ->
             delivered \cup
             UNION {{<< n, id >> :
                       id \in Range(FloodMarkedSeen(
                                CrawlNewItems(CrawlSorted(prevUpstream[n]),
                                              startFile[n].ids)))} :
                    n \in {m \in Names : fetchSt[m] = "ok"}}
        [] OTHER -> delivered

ArxivStart ==
  /\ prog = "arxiv" /\ pc \in {"idle", "done", "killed"} /\ runs < MaxRuns
  /\ config_exists
  /\ seen' = Range(arxiv_load_history)
  /\ new_history_items' = <<>>
  /\ notifications_sent' = 0
  /\ results' = <<>>
  /\ si' = 1
  /\ pc' = "loop"
  /\ calls' = <<>>
  /\ fetchSt' = [n \in Names |-> "no"]
  /\ startArxivFile' = arxivFile
  /\ sameItems' = (finished /\ upstream = prevUpstream)
  /\ prevFetchSt' = IF finished THEN fetchSt ELSE [n \in Names |-> "no"]
  /\ failedBefore' = failedBefore \cup
                       {<< calls[i].src, calls[i].id >> :
                          i \in {j \in 1..Len(calls) : ~calls[j].ok}}
  /\ settled' = IF finished THEN settled \cup SettledInRun ELSE settled
  /\ runs' = runs + 1
  /\ cutBefore' = (cutBefore \/ BudgetSpentOuter)
  /\ wrote' = FALSE
  /\ UNCHANGED << html, extracted, prog, config_exists, credentials, lost, finished,
                  fileState, faults, now, upstream, file, arxivFile, history,
                  updated_history, new_items, to_send, histBefore, startFile,
                  prevUpstream >>

\* top of the outer loop with the budget used up: break.  Also the normal
\* end of the loop.
ArxivLoopEnd ==
  /\ prog = "arxiv" /\ pc = "loop"
  /\ (si > Len(Config) \/ BudgetSpentOuter)
  /\ pc' = "save"
  /\ UNCHANGED << html, extracted, settled, prog, config_exists, credentials, lost, finished,
                  fileState, wrote, cutBefore, faults, now, upstream, file, arxivFile, si,
                  history, updated_history, new_items, to_send, seen,
                  new_history_items, notifications_sent, results, calls,
                  fetchSt, histBefore, startFile, startArxivFile,
                  prevUpstream, sameItems, prevFetchSt, failedBefore, runs >>

\* client.results raises: continue
ArxivFetchFailed ==
  /\ prog = "arxiv" /\ pc = "loop" /\ si <= Len(Config)
  /\ ~BudgetSpentOuter
  /\ fetchSt' = [fetchSt EXCEPT ![Cur.name] = "fail"]
  /\ si' = si + 1
  /\ faults < MaxFaults /\ faults' = faults + 1
  /\ UNCHANGED << html, extracted, settled, prog, config_exists, credentials, lost, finished,
                  fileState, wrote, cutBefore, now, upstream, file, arxivFile, pc,
                  history, updated_history, new_items, to_send, seen,
                  new_history_items, notifications_sent, results, calls,
                  histBefore, startFile, startArxivFile, prevUpstream,
                  sameItems, prevFetchSt, failedBefore, runs >>

\* results = list(client.results(search)); results.reverse()
ArxivFetch ==
  /\ prog = "arxiv" /\ pc = "loop" /\ si <= Len(Config)
  /\ ~BudgetSpentOuter
  /\ results' = Reverse(upstream[Cur.name])
  /\ fetchSt' = [fetchSt EXCEPT ![Cur.name] = "ok"]
  /\ pc' = "paper"
  /\ UNCHANGED << html, extracted, settled, prog, config_exists, credentials, lost, finished,
                  fileState, wrote, cutBefore, faults, now, upstream, file, arxivFile, si,
                  history, updated_history, new_items, to_send, seen,
                  new_history_items, notifications_sent, calls, histBefore,
                  startFile, startArxivFile, prevUpstream, sameItems,
                  prevFetchSt, failedBefore, runs >>

\* the inner loop ends: no paper left, or the budget check breaks out of it
ArxivNextSearch ==
  /\ prog = "arxiv" /\ pc = "paper"
  /\ (results = <<>> \/ BudgetSpentInner)
  /\ si' = si + 1
  /\ pc' = "loop"
  /\ UNCHANGED << html, extracted, settled, prog, config_exists, credentials, lost, finished,
                  fileState, wrote, cutBefore, faults, now, upstream, file, arxivFile,
                  history, updated_history, new_items, to_send, seen,
                  new_history_items, notifications_sent, results, calls,
                  fetchSt, histBefore, startFile, startArxivFile,
                  prevUpstream, sameItems, prevFetchSt, failedBefore, runs >>

\* a paper that is not sent: seen already (continue), or no keyword matches
\* (recorded, continue)
ArxivSkipPaper ==
  /\ prog = "arxiv" /\ pc = "paper" /\ results # <<>>
  /\ ~BudgetSpentInner
  /\ LET paper == Head(results)
         paper_id == paper.gid
     IN /\ paper_id \in seen \/ NotMatched(Cur, paper)
        /\ IF paper_id \in seen
           THEN UNCHANGED << seen, new_history_items >>
           ELSE /\ seen' = seen \cup {paper_id}
                /\ new_history_items' = Append(new_history_items, paper_id)
  /\ results' = Tail(results)
  /\ UNCHANGED << html, extracted, settled, prog, config_exists, credentials, lost, finished,
                  fileState, wrote, cutBefore, faults, now, upstream, file, arxivFile, pc,
                  si, history, updated_history, new_items, to_send,
                  notifications_sent, calls, fetchSt, histBefore, startFile,
                  startArxivFile, prevUpstream, sameItems, prevFetchSt,
                  failedBefore, runs >>

\* "It's a match!": the notifier is called and answers ok
ArxivSend(ok) ==
  /\ prog = "arxiv" /\ pc = "paper" /\ results # <<>>
  /\ ~BudgetSpentInner
  /\ LET paper == Head(results)
         paper_id == paper.gid
     IN /\ paper_id \notin seen /\ ~NotMatched(Cur, paper)
        /\ calls' = Append(calls, [src |-> Cur.name, id |-> paper_id,
                                   t |-> Published(paper), ok |-> ok])
        /\ IF ok
           THEN /\ notifications_sent' = notifications_sent + 1
                /\ seen' = seen \cup {paper_id}
                /\ new_history_items' = Append(new_history_items, paper_id)
           ELSE UNCHANGED << notifications_sent, seen, new_history_items >>
  /\ results' = Tail(results)
  /\ Answers(ok)
  /\ faults' = FaultsAfter(ok)
  /\ UNCHANGED << html, extracted, settled, prog, config_exists, credentials, lost, finished,
                  fileState, wrote, cutBefore, now, upstream, file, arxivFile, pc, si,
                  history, updated_history, new_items, to_send, fetchSt,
                  histBefore, startFile, startArxivFile, prevUpstream,
                  sameItems, prevFetchSt, failedBefore, runs >>

\* Save History: reload the file, merge, truncate, write (always)
ArxivSave ==
  /\ prog = "arxiv" /\ pc = "save"
  /\ arxivFile' = arxiv_save_history(MergeNew(arxiv_load_history,
                                              new_history_items))
  /\ pc' = "done"
  /\ finished' = TRUE /\ lost' = {}
  /\ prevUpstream' = upstream
  /\ wrote' = TRUE
  /\ fileState' = "ok"
  /\ UNCHANGED << html, extracted, settled, prog, config_exists, credentials,
                  cutBefore, faults, now, upstream, file, si, history,
                  updated_history, new_items, to_send, seen,
                  new_history_items, notifications_sent, results, calls,
                  fetchSt, histBefore, startFile, startArxivFile, sameItems,
                  prevFetchSt, failedBefore, runs >>

-----------------------------------------------------------------------------
(* release_checker.check_releases *)

\* the lookup that finds nothing, whatever the history holds
LastSeen_Nothing(h, repo) == NoId

\* history.get(repo): None when the repo has no entry
LastSeen(h, repo) == IF h[repo].has THEN h[repo].ids[1] ELSE NoId

\* requests.get raises, the status is an error, or the body is no JSON
ReleaseFetchFailed ==
  /\ prog = "release" /\ pc = "loop" /\ si <= Len(Config)
  /\ fetchSt' = [fetchSt EXCEPT ![Cur.name] = "fail"]
  /\ si' = si + 1
  /\ faults < MaxFaults /\ faults' = faults + 1
  /\ UNCHANGED << html, extracted, settled, prog, config_exists, credentials, lost, finished,
                  fileState, wrote, cutBefore, now, upstream, file, arxivFile, pc,
                  history, updated_history, new_items, to_send, seen,
                  new_history_items, notifications_sent, results, calls,
                  histBefore, startFile, startArxivFile, prevUpstream,
                  sameItems, prevFetchSt, failedBefore, runs >>

\* the latest release is fetched: 'if not tag: continue', else compare it
\* with history.get(repo)
ReleaseProcess ==
  /\ prog = "release" /\ pc = "loop" /\ si <= Len(Config)
  /\ upstream[Cur.name] # <<>>
  /\ LET data == upstream[Cur.name][1]
         tag == data.gid
     IN /\ fetchSt' = [fetchSt EXCEPT ![Cur.name] = "ok"]
        /\ IF tag = NoId
           THEN /\ si' = si + 1
                /\ UNCHANGED << pc, to_send >>
           ELSE /\ to_send' = IF tag # LastSeen(history, Cur.name)
                              THEN << data >> ELSE <<>>
                /\ pc' = "send"
                /\ UNCHANGED si
  /\ UNCHANGED << html, extracted, settled, prog, config_exists, credentials, lost, finished,
                  fileState, wrote, cutBefore, faults, now, upstream, file, arxivFile,
                  history, updated_history, new_items, seen,
                  new_history_items, notifications_sent, results, calls,
                  histBefore, startFile, startArxivFile, prevUpstream,
                  sameItems, prevFetchSt, failedBefore, runs >>

\* 'NEW RELEASE': the notifier is called and answers ok
ReleaseSend(ok) ==
  /\ prog = "release" /\ pc = "send" /\ to_send # <<>>
  /\ LET tag == Head(to_send).gid
     IN /\ calls' = Append(calls, [src |-> Cur.name, id |-> tag,
                                   t |-> Epoch, ok |-> ok])
        /\ history' = IF ok THEN [history EXCEPT ![Cur.name] = Key(<< tag >>)]
                      ELSE history
        /\ updated_history' = (updated_history \/ ok)
        /\ to_send' = Tail(to_send)
  /\ Answers(ok)
  /\ faults' = FaultsAfter(ok)
  /\ UNCHANGED << html, extracted, settled, prog, config_exists, credentials, lost, finished,
                  fileState, wrote, cutBefore, now, upstream, file, arxivFile, pc, si,
                  new_items, seen, new_history_items, notifications_sent,
                  results, fetchSt, histBefore, startFile, startArxivFile,
                  prevUpstream, sameItems, prevFetchSt, failedBefore, runs >>

\* the next repo
ReleaseNext ==
  /\ prog = "release" /\ pc = "send" /\ to_send = <<>>
  /\ si' = si + 1
  /\ pc' = "loop"
  /\ UNCHANGED << html, extracted, settled, prog, config_exists, credentials, lost, finished,
                  fileState, wrote, cutBefore, faults, now, upstream, file, arxivFile,
                  history, updated_history, new_items, to_send, seen,
                  new_history_items, notifications_sent, results, calls,
                  fetchSt, histBefore, startFile, startArxivFile,
                  prevUpstream, sameItems, prevFetchSt, failedBefore, runs >>

-----------------------------------------------------------------------------
(* The run frame shared by the dict-shaped scripts *)

DictProgs == {"rss", "youtube", "crawl", "release"}
Progs == DictProgs \cup {"arxiv"}

\* load_history of rss, youtube, crawl and release: the file's dict ({} when
\* there is no file).  json.load is not guarded: a file that is not JSON
\* raises out of load_history
load_history == file

\* history = load_history() raises JSONDecodeError; or the value loaded is
\* no dict and the first 'history[name] = []' (crawl, rss, youtube: before
\* the first fetch) raises TypeError.  The script ends with a traceback.
LoadCrash ==
  /\ prog \in DictProgs /\ pc \in {"idle", "done", "crashed"} /\ runs < MaxRuns
  /\ config_exists /\ fileState # "ok"
  /\ pc' = "crashed"
  /\ runs' = runs + 1
  /\ calls' = <<>>
  /\ fetchSt' = [n \in Names |-> "no"]
  /\ startFile' = file
  /\ wrote' = FALSE
  /\ UNCHANGED << html, extracted, settled, prog, config_exists, credentials, lost, finished,
                  fileState, cutBefore, faults, now, upstream, file,
                  arxivFile, si, history, updated_history, new_items, to_send,
                  seen, new_history_items, notifications_sent, results,
                  histBefore, startArxivFile, prevUpstream, sameItems,
                  prevFetchSt, failedBefore >>

\* 'if not os.path.exists(CONFIG_FILE): print(...); return', the first
\* statement of every check_* function
NoConfigRun ==
  /\ pc \in {"idle", "noconfig"} /\ runs < MaxRuns
  /\ ~config_exists
  /\ pc' = "noconfig"
  /\ runs' = runs + 1
  /\ calls' = <<>>
  /\ fetchSt' = [n \in Names |-> "no"]
  /\ startFile' = file /\ startArxivFile' = arxivFile
  /\ wrote' = FALSE
  /\ UNCHANGED << html, extracted, settled, prog, config_exists, credentials, lost, finished,
                  fileState, cutBefore,
                  faults, now, upstream, file, arxivFile, si, history,
                  updated_history, new_items, to_send, seen,
                  new_history_items, notifications_sent, results, histBefore,
                  prevUpstream, sameItems, prevFetchSt, failedBefore >>

\* check_*: config read, history = load_history(), updated_history = False
StartRun ==
  /\ prog \in DictProgs /\ pc \in {"idle", "done", "killed"} /\ runs < MaxRuns
  /\ config_exists /\ fileState = "ok"
  /\ history' = load_history
  /\ updated_history' = FALSE
  /\ si' = 1
  /\ pc' = "loop"
  /\ new_items' = <<>> /\ to_send' = <<>> /\ histBefore' = <<>>
  /\ calls' = <<>>
  /\ fetchSt' = [n \in Names |-> "no"]
  /\ startFile' = file
  /\ sameItems' = (finished /\ upstream = prevUpstream)
  /\ prevFetchSt' = IF finished THEN fetchSt ELSE [n \in Names |-> "no"]
  /\ failedBefore' = failedBefore \cup
                       {<< calls[i].src, calls[i].id >> :
                          i \in {j \in 1..Len(calls) : ~calls[j].ok}}
  /\ settled' = IF finished THEN settled \cup SettledInRun ELSE settled
  /\ runs' = runs + 1
  /\ wrote' = FALSE
  /\ UNCHANGED << html, extracted, prog, config_exists, credentials, lost, finished,
                  fileState, cutBefore, faults, now, upstream, file, arxivFile,
                  seen, new_history_items, notifications_sent, results,
                  startArxivFile, prevUpstream >>

\* save_history of the dict-shaped scripts: json.dump of the whole dict
save_history(h) == h

\* 'if updated_history: save_history(history)': the file afterwards
SavedIfUpdated(f, h, dirty) == IF dirty THEN save_history(h) ELSE f

\* after the loop: the history is written when the run changed it
Persist ==
  /\ prog \in DictProgs /\ pc = "loop" /\ si > Len(Config)
  /\ file' = SavedIfUpdated(file, history, updated_history)
  /\ pc' = "done"
  /\ finished' = TRUE /\ lost' = {}
  /\ prevUpstream' = upstream
  /\ wrote' = updated_history
  /\ fileState' = IF updated_history THEN "ok" ELSE fileState
  /\ UNCHANGED << html, extracted, settled, prog, config_exists, credentials,
                  cutBefore, faults, now, upstream, arxivFile, si,
                  history, updated_history, new_items, to_send, seen,
                  new_history_items, notifications_sent, results, calls,
                  fetchSt, histBefore, startFile, startArxivFile, sameItems,
                  prevFetchSt, failedBefore, runs >>

\* the process is stopped from outside (job cancelled, runner lost) at any
\* point of a run before its end: what the run held in memory is gone, the
\* file is what it was.  A termination uses up the behaviour's faults.
Terminate ==
  /\ pc \in {"loop", "send", "paper", "save"}
  /\ faults = 0 /\ faults' = MaxFaults
  /\ pc' = "killed"
  /\ lost' = {<< calls[i].src, calls[i].id >> :
               i \in {j \in 1..Len(calls) : calls[j].ok}}
  /\ finished' = FALSE
  /\ UNCHANGED << html, extracted, settled, prog, config_exists, credentials, fileState, wrote,
                  cutBefore, now, upstream, file, arxivFile, si, history,
                  updated_history, new_items, to_send, seen,
                  new_history_items, notifications_sent, results, calls,
                  fetchSt, histBefore, startFile, startArxivFile,
                  prevUpstream, sameItems, prevFetchSt, failedBefore, runs >>

-----------------------------------------------------------------------------
(* The world outside: listings and the clock *)

World(a, b, c) == [n \in Names |-> CASE n = "A" -> a [] n = "B" -> b [] n = "C" -> c]

\* a crawled article: a link (built from the slug) and publishedOn
Art(l, t) == Item(NoId, l, Naive(t), NoDate)

\* three articles, not in date order
CrawlSmall == << Art(2, 20), Art(1, 10), Art(3, 30) >>
\* five articles dated D1 < ... < D5, not in date order
CrawlFive == << Art(13, 30), Art(15, 50), Art(11, 10), Art(14, 40), Art(12, 20) >>
\* an article without slug, one without date, one listed twice, one with an
\* offset in its date (61 UTC)
CrawlOdd ==
  << Art(6, 60), Item(NoId, NoId, Naive(70), NoDate),
     Item(NoId, 7, NoDate, NoDate), Art(6, 60),
     Item(NoId, 8, Aware(64, 3), NoDate) >>
\* a listing longer than the history kept for it
CrawlBig == [i \in 1..BigLen |-> Art(100 + i, 100 + i)]

CrawlWorlds ==
  { World(CrawlSmall, <<>>, <<>>),
    World(CrawlFive, CrawlSmall, <<>>),
    World(CrawlOdd, CrawlFive, <<>>),
    World(CrawlSmall, CrawlOdd, <<>>),
    World(CrawlBig, <<>>, <<>>) }

NoFile == [n \in Names |-> NoKey]

CrawlFiles ==
  { NoFile,
    [NoFile EXCEPT !["A"] = Key(<< 1 >>), !["B"] = Key(<< 6, 12 >>)],
    [NoFile EXCEPT !["A"] = Key(Filler(1001, 1000 + CRAWL_MAX_HISTORY - 1))] }

\* a feed entry: id, link, published, updated
Ent(g, l, p, u) == Item(g, l, p, u)

\* three posts, newest first; the last one sits exactly on the threshold of
\* feed A (lookback 3 h) for a run at 98
RssThree ==
  << Ent(2, 52, Naive(97), NoDate), Ent(1, 51, Naive(96), NoDate),
     Ent(3, 53, Naive(95), NoDate) >>
\* an entry with a link only and an offset date (97 UTC), one with neither id
\* nor link, one with only "updated", one whose date does not parse, one
\* with no date at all, and entry 5 once more
RssOdd ==
  << Ent(NoId, 54, Aware(100, 3), NoDate), Ent(NoId, NoId, Naive(97), NoDate),
     Ent(5, 55, NoDate, Naive(98)), Ent(6, 56, BadDate, Naive(98)),
     Ent(7, 57, NoDate, NoDate), Ent(5, 55, NoDate, Naive(98)) >>
\* the daily feed B (lookback 72 h): the second post sits on its threshold
RssDaily == << Ent(8, 58, Naive(30), NoDate), Ent(9, 59, Naive(26), NoDate) >>

RssWorlds ==
  { World(RssThree, RssDaily, <<>>),
    World(RssOdd, <<>>, <<>>),
    World(RssOdd, RssDaily, <<>>),
    World(<<>>, RssDaily, <<>>) }

RssFiles ==
  { NoFile,
    [NoFile EXCEPT !["A"] = Key(<< 2 >>), !["B"] = Key(<< 8 >>)],
    [NoFile EXCEPT !["A"] = Key(Filler(1001, 1000 + RSS_MAX_HISTORY - 1))] }

\* a video entry
Vid(g, t, sh) == [Item(g, g + 50, Naive(t), NoDate) EXCEPT !.short = sh]

\* for a run at 98 the threshold is 68: video 3 sits on it, video 2 just
\* inside; video 4 is a short
YtFour == << Vid(1, 97, FALSE), Vid(2, 69, FALSE), Vid(3, 68, FALSE),
             Vid(4, 90, TRUE) >>
YtTwo == << Vid(5, 80, FALSE), Vid(6, 96, FALSE) >>

YtWorlds ==
  { World(YtFour, <<>>, <<>>),
    World(YtTwo, YtFour, <<>>),
    World(<<>>, YtTwo, <<>>) }

YtFiles ==
  { NoFile,
    [NoFile EXCEPT !["A"] = Key(<< 1 >>), !["B"] = Key(<< 5 >>)],
    [NoFile EXCEPT !["A"] = Key(Filler(1001, 1000 + YT_MAX_HISTORY - 1))] }

\* a paper: short id, published, the searches whose keywords it matches
Paper(g, t, m) == [Item(g, NoId, Naive(t), NoDate) EXCEPT !.match = m]

\* newest first, as the API is asked to return them.  Paper 3 matches the
\* keywords of B only.
ArxA == << Paper(4, 40, {"A"}), Paper(3, 30, {"B"}), Paper(2, 20, {"A", "B"}),
           Paper(1, 10, {"A"}) >>
ArxB == << Paper(10, 90, {"B"}), Paper(6, 60, {"B"}), Paper(5, 50, {"B"}),
           Paper(3, 30, {"B"}) >>
ArxC == << Paper(8, 80, {}), Paper(7, 70, {}) >>
\* a result list that is not newest first
ArxMixed == << Paper(1, 10, {"A"}), Paper(4, 40, {"A"}), Paper(9, 20, {}) >>

\* one search lists a single paper that matches, the next as many papers as
\* the history keeps, none of which matches
ArxOne == << Paper(201, 95, {"A"}) >>
ArxFull == [i \in 1..MAX_HISTORY_SIZE |-> Paper(300 + i, 90 - i, {})]

ArxivWorlds ==
  { World(ArxA, ArxB, ArxC),
    World(ArxMixed, <<>>, ArxC) }

ArxivFiles ==
  { <<>>, << 4, 7 >>, Filler(1001, 1000 + MAX_HISTORY_SIZE - 1) }

\* the latest release of a repo: tag_name (NoId when the body has none)
Rel(tag) == << Item(tag, NoId, NoDate, NoDate) >>

ReleaseWorlds ==
  { World(Rel(1), Rel(2), <<>>),
    World(Rel(2), Rel(2), <<>>),
    World(Rel(NoId), Rel(3), <<>>) }

ReleaseFiles ==
  { NoFile,
    [NoFile EXCEPT !["A"] = Key(<< 1 >>), !["B"] = Key(<< 2 >>)] }

Worlds ==
  CASE prog = "crawl" -> CrawlWorlds
    [] prog = "arxiv" -> ArxivWorlds
    [] prog = "release" -> ReleaseWorlds
    [] prog = "rss" -> RssWorlds
    [] prog = "youtube" -> YtWorlds

Files ==
  CASE prog = "crawl" -> CrawlFiles
    [] prog = "arxiv" -> {NoFile}
    [] prog = "release" -> ReleaseFiles
    [] prog = "rss" -> RssFiles
    [] prog = "youtube" -> YtFiles

\* the first hour a run can start at: 05:30 in Tehran
StartNow == 98

\* an hour passes between runs (only rss and youtube read the clock)
Advance ==
  /\ pc \in {"idle", "done", "killed"} /\ prog \in {"rss", "youtube"}
  /\ now < MaxNow
  /\ now' = now + 1
  /\ pc' = "idle"
  /\ UNCHANGED << html, extracted, settled, prog, config_exists, credentials, lost, finished,
                  fileState, wrote, cutBefore, faults, upstream, file, arxivFile, si,
                  history, updated_history, new_items, to_send, seen,
                  new_history_items, notifications_sent, results, calls,
                  fetchSt, histBefore, startFile, startArxivFile,
                  prevUpstream, sameItems, prevFetchSt, failedBefore, runs >>

\* between two runs the sources may list something else
Republish ==
  /\ pc \in {"idle", "done", "killed"} /\ runs >= 1 /\ runs < MaxRuns
  /\ upstream' \in Worlds \ {upstream}
  /\ pc' = "idle"
  /\ UNCHANGED << html, extracted, settled, prog, config_exists, credentials, lost, finished,
                  fileState, wrote, cutBefore, faults, now, file, arxivFile, si, history,
                  updated_history, new_items, to_send, seen,
                  new_history_items, notifications_sent, results, calls,
                  fetchSt, histBefore, startFile, startArxivFile,
                  prevUpstream, sameItems, prevFetchSt, failedBefore, runs >>

-----------------------------------------------------------------------------
(* extractors/anthropic.py: AnthropicExtractor.extract *)

\* A page is the sequence of its self.__next_f.push payloads, in document
\* order (the scripts of the page one after the other, the payloads of one
\* script in the order the pattern finds them; both loops leave on the same
\* condition).  A JSON value found under "articles" or "posts": the key is
\* absent, null, a number other than 0, a non-empty string or dict, or a list.
Absent == [shape |-> "absent", items |-> <<>>]
Null == [shape |-> "null", items |-> <<>>]
Number == [shape |-> "number", items |-> <<>>]
String == [shape |-> "string", items |-> <<>>]
List(s) == [shape |-> "list", items |-> s]

\* an element of a record list: a dict with title, slug.current and _type,
\* or something that is no dict
Rec(t, s, ty) == [dict |-> TRUE, title |-> t, slug |-> s, type |-> ty]
NoDict == [dict |-> FALSE, title |-> 0, slug |-> "", type |-> ""]

\* an element of "sections": a dict with _type, "articles" and "posts", or
\* something that is no dict
Section(ty, a, p) == [dict |-> TRUE, type |-> ty, articles |-> a, posts |-> p]
NoSection == [dict |-> FALSE, type |-> "", articles |-> Absent, posts |-> Absent]

\* One payload, by how far the code gets with it:
\*   "nokeyword"  neither "articles" nor "posts" occurs in it
\*   "badescape"  it is no JavaScript string literal
\*   "nocolon"    the decoded string has no chunk id
\*   "badjson"    what follows the chunk id is not JSON
\*   "notlist"    the JSON is no list of more than 3 elements with a dict
\*                at index 3
\*   "nopage"     data[3] has no "page", or the page has no "sections"
\*   "pagenodict" data[3]["page"] is no dict
\*   "noiter"     page["sections"] is null or a number
\*   "sections"   page["sections"] is the list given
Fragment(k, secs) == [payload |-> k, sections |-> secs]

\* bool(v)
Truthy(v) ==
  \/ v.shape \in {"number", "string"}
  \/ v.shape = "list" /\ v.items # <<>>

\* section.get(key, []): an absent key reads as the empty list
Get(v) == IF v.shape = "absent" THEN List(<<>>) ELSE v

\* the loop over the sections: the first section of type articleList or
\* publicationList sets target_articles and ends the loop; a section that
\* is no dict has no get
RECURSIVE ScanSections(_, _, _)
ScanSections(secs, i, target) ==
  IF i > Len(secs) THEN [err |-> "", target |-> target]
  ELSE IF ~secs[i].dict THEN [err |-> "AttributeError", target |-> target]
  ELSE IF secs[i].type = "articleList"
    THEN [err |-> "", target |-> Get(secs[i].articles)]
  ELSE IF secs[i].type = "publicationList"
    THEN [err |-> "", target |-> Get(secs[i].posts)]
  ELSE ScanSections(secs, i + 1, target)

\* the body of the loop over the payloads, for one payload: what it raises
\* ("" when nothing), and target_articles after it
Payload(f, target) ==
  CASE f.payload = "nokeyword" -> [err |-> "", target |-> target]
    [] f.payload \in {"badescape", "badjson"} ->
         [err |-> "JSONDecodeError", target |-> target]
    [] f.payload = "nocolon" -> [err |-> "", target |-> target]
    [] f.payload \in {"notlist", "nopage"} -> [err |-> "", target |-> target]
    [] f.payload = "pagenodict" -> [err |-> "AttributeError", target |-> target]
    [] f.payload = "noiter" -> [err |-> "TypeError", target |-> target]
    [] f.payload = "sections" -> ScanSections(f.sections, 1, target)

\* except (json.JSONDecodeError, ValueError, IndexError, AttributeError)
Caught == {"JSONDecodeError", "ValueError", "IndexError", "AttributeError"}

\* the scan: an exception of the except clause goes on with the next
\* payload, any other leaves extract; a truthy target_articles ends the scan
RECURSIVE Scan(_, _, _)
Scan(doc, i, target) ==
  IF i > Len(doc) THEN [err |-> "", target |-> target]
  ELSE LET r == Payload(doc[i], target)
       IN  IF r.err \in Caught THEN Scan(doc, i + 1, r.target)
           ELSE IF r.err # "" THEN r
           ELSE IF Truthy(r.target) THEN r
           ELSE Scan(doc, i + 1, r.target)

BASE_URL == "https://www.anthropic.com"
NoLink == [base |-> "", path |-> "", slug |-> ""]

\* the link of one record: None without slug, else BASE_URL, the path the
\* _type selects, and the slug
Link(art) ==
  IF art.slug = "" THEN NoLink
  ELSE [base |-> BASE_URL,
        path |-> CASE art.type \in {"engineeringArticle"} -> "/engineering/"
                   [] art.type \in {"researchPost", "post"} -> "/research/"
                   [] OTHER -> "/engineering/",
        slug |-> art.slug]

\* _standardize_output of every dict of the list, in its order (of the
\* fields of a record the title and the link are kept)
RECURSIVE Standardize(_)
Standardize(arts) ==
  IF arts = <<>> THEN <<>>
  ELSE LET rest == Standardize(Tail(arts))
       IN  IF Head(arts).dict
           THEN << [title |-> Head(arts).title, link |-> Link(Head(arts))] >> \o rest
           ELSE rest

\* what a call returns: the exception that left it ("" when none) and the
\* records returned
Returned(recs) == [raised |-> "", records |-> recs]
Raised(e) == [raised |-> e, records |-> <<>>]
NotCalled == [raised |-> "not called", records |-> <<>>]

\* extract(html_content): target_articles = [], the scan, then the loop over
\* target_articles; null and a number cannot be iterated, the elements of a
\* string or of a dict are no dicts
extract(doc) ==
  LET r == Scan(doc, 1, List(<<>>))
  IN  IF r.err # "" THEN Raised(r.err)
      ELSE IF r.target.shape \in {"null", "number"} THEN Raised("TypeError")
      ELSE Returned(Standardize(r.target.items))

\* the pages of the model
MaxFragments == 3
R1 == Rec(1, "a", "engineeringArticle")
R2 == Rec(2, "b", "post")
R3 == Rec(3, "", "")
Hero == Section("hero", List(<< R3 >>), Absent)
ArticleList(v) == Section("articleList", v, List(<< R2 >>))
PublicationList(v) == Section("publicationList", List(<< R1 >>), v)
Fragments ==
  { Fragment(k, <<>>) :
      k \in {"nokeyword", "badescape", "nocolon", "badjson", "notlist",
             "nopage", "pagenodict", "noiter"} }
  \cup
  { Fragment("sections", s) :
      s \in { << Hero >>,
              << NoSection, ArticleList(List(<< R1 >>)) >>,
              << Hero, ArticleList(List(<< R1, R3 >>)) >>,
              << ArticleList(List(<<>>)) >>,
              << ArticleList(Absent) >>,
              << ArticleList(Null) >>,
              << ArticleList(Number) >>,
              << ArticleList(String) >>,
              << ArticleList(List(<< NoDict >>)) >>,
              << ArticleList(List(<< NoDict, R1 >>)) >>,
              << PublicationList(List(<< R2, R3 >>)) >>,
              << ArticleList(List(<<>>)), PublicationList(List(<< R2 >>)) >> } }
Pages == UNION { [1..n -> Fragments] : n \in 0..MaxFragments }

\* one call of extract on the page
Extract ==
  /\ extracted = NotCalled
  /\ extracted' = extract(html)
  /\ UNCHANGED << html, settled, prog, config_exists, credentials, now, upstream, file,
                  arxivFile, fileState, pc, si, history, updated_history,
                  new_items, to_send, seen, new_history_items,
                  notifications_sent, results, calls, fetchSt, histBefore,
                  startFile, startArxivFile, prevUpstream, sameItems,
                  prevFetchSt, failedBefore, cutBefore, wrote, faults, lost,
                  finished, runs >>

-----------------------------------------------------------------------------
(* The specification *)

\* a file that is not JSON, or JSON of another shape, holds no history; in
\* release_checker a value that is no dict is touched only after a
\* successful fetch, that case is left out
FileStates ==
  IF prog = "release" THEN {"ok", "corrupt"} ELSE {"ok", "corrupt", "shape"}

Init ==
  /\ prog \in Progs
  /\ config_exists \in BOOLEAN /\ credentials \in BOOLEAN
  /\ now = StartNow
  /\ upstream \in Worlds
  /\ file \in Files
  /\ arxivFile \in (IF prog = "arxiv" THEN ArxivFiles ELSE {<<>>})
  /\ fileState \in FileStates
  /\ fileState # "ok" => file = NoFile /\ arxivFile = <<>>
  /\ pc = "idle" /\ si = 1
  /\ history = NoFile /\ updated_history = FALSE
  /\ new_items = <<>> /\ to_send = <<>>
  /\ seen = {} /\ new_history_items = <<>> /\ notifications_sent = 0
  /\ results = <<>>
  /\ calls = <<>>
  /\ fetchSt = [n \in Names |-> "no"]
  /\ histBefore = <<>>
  /\ startFile = file /\ startArxivFile = arxivFile
  /\ prevUpstream = upstream /\ sameItems = FALSE
  /\ prevFetchSt = [n \in Names |-> "no"]
  /\ failedBefore = {}
  /\ cutBefore = FALSE
  /\ wrote = FALSE
  /\ faults = 0
  /\ lost = {} /\ finished = FALSE /\ settled = {}
  /\ runs = 0
  /\ html = <<>> /\ extracted = NotCalled

Next ==
  \/ NoConfigRun
  \/ Terminate
  \/ StartRun
  \/ LoadCrash
  \/ Persist
  \/ Republish
  \/ Advance
  \/ RssSkip
  \/ RssFetchFailed
  \/ RssProcess
  \/ \E ok \in BOOLEAN : RssSend(ok)
  \/ RssTruncate
  \/ YtFetchFailed
  \/ YtProcess
  \/ \E ok \in BOOLEAN : YtSend(ok)
  \/ YtTruncate
  \/ ArxivStart
  \/ ArxivLoopEnd
  \/ ArxivFetchFailed
  \/ ArxivFetch
  \/ ArxivNextSearch
  \/ ArxivSkipPaper
  \/ \E ok \in BOOLEAN : ArxivSend(ok)
  \/ ArxivSave
  \/ ReleaseFetchFailed
  \/ ReleaseProcess
  \/ \E ok \in BOOLEAN : ReleaseSend(ok)
  \/ ReleaseNext
  \/ CrawlFetchFailed
  \/ CrawlProcess
  \/ \E ok \in BOOLEAN : CrawlSend(ok)
  \/ CrawlTruncate

Spec == Init /\ [][Next]_vars

\* extract on its own: any page of the model, and one call
ExtractInit ==
  /\ html \in Pages /\ extracted = NotCalled
  /\ prog = "crawl"
  /\ config_exists = TRUE /\ credentials = TRUE
  /\ now = StartNow
  /\ upstream = [n \in Names |-> <<>>]
  /\ file = NoFile /\ arxivFile = <<>> /\ fileState = "ok"
  /\ pc = "idle" /\ si = 1
  /\ history = NoFile /\ updated_history = FALSE
  /\ new_items = <<>> /\ to_send = <<>>
  /\ seen = {} /\ new_history_items = <<>> /\ notifications_sent = 0
  /\ results = <<>>
  /\ calls = <<>>
  /\ fetchSt = [n \in Names |-> "no"]
  /\ histBefore = <<>>
  /\ startFile = file /\ startArxivFile = arxivFile
  /\ prevUpstream = upstream /\ sameItems = FALSE
  /\ prevFetchSt = [n \in Names |-> "no"]
  /\ failedBefore = {}
  /\ cutBefore = FALSE
  /\ wrote = FALSE
  /\ faults = 0
  /\ lost = {} /\ finished = FALSE /\ settled = {}
  /\ runs = 0

ExtractNext == Extract

ExtractSpec == ExtractInit /\ [][ExtractNext]_vars

\* check_arxiv on listings that hold more papers than the history keeps
ArxivFullInit ==
  /\ prog = "arxiv"
  /\ config_exists = TRUE /\ credentials = TRUE
  /\ now = StartNow
  /\ upstream = World(ArxOne, ArxFull, <<>>)
  /\ file = NoFile /\ arxivFile = <<>> /\ fileState = "ok"
  /\ pc = "idle" /\ si = 1
  /\ history = NoFile /\ updated_history = FALSE
  /\ new_items = <<>> /\ to_send = <<>>
  /\ seen = {} /\ new_history_items = <<>> /\ notifications_sent = 0
  /\ results = <<>>
  /\ calls = <<>>
  /\ fetchSt = [n \in Names |-> "no"]
  /\ histBefore = <<>>
  /\ startFile = file /\ startArxivFile = arxivFile
  /\ prevUpstream = upstream /\ sameItems = FALSE
  /\ prevFetchSt = [n \in Names |-> "no"]
  /\ failedBefore = {}
  /\ cutBefore = FALSE
  /\ wrote = FALSE
  /\ faults = 0
  /\ lost = {} /\ finished = FALSE /\ settled = {}
  /\ runs = 0
  /\ html = <<>> /\ extracted = NotCalled

ArxivFullSpec == ArxivFullInit /\ [][Next]_vars

-----------------------------------------------------------------------------
(* Properties *)

\* the identities a source's history held when the run started (arxiv keeps
\* one list for all searches)
StartIds(src) ==
  IF prog = "arxiv" THEN Range(startArxivFile) ELSE Range(startFile[src].ids)

\* the notifier calls of the run that were made for source src
CallsOf(src) == {i \in 1..Len(calls) : calls[i].src = src}

\* a crawl source has gone through its send loop and is about to be truncated
CrawlSourceSent == prog = "crawl" /\ pc = "send" /\ to_send = <<>>

\* C1: in every run of every checker, an identity that is in the source's
\* history when the run starts is never handed to the notifier in that run.
C1_SeenNeverNotified ==
  \A i \in 1..Len(calls) : calls[i].id \notin StartIds(calls[i].src)

\* C1 witness (Scenario B): crawl source A was known with article 1, the
\* listing holds articles 1, 2 and 3, and the finished run notified 2 and 3.
C1_Witness ==
  /\ prog = "crawl" /\ pc = "done"
  /\ startFile["A"].ids = << 1 >>
  /\ upstream["A"] = CrawlSmall
  /\ Len(calls) = 2
  /\ {calls[i].id : i \in 1..Len(calls)} = {2, 3}
  /\ \A i \in 1..Len(calls) : calls[i].ok
  /\ file["A"].ids = << 1, 2, 3 >>

\* C2 as stated: more than 3 candidates give exactly 1 notifier call and n
\* identities added to the source's history; at most 3 give n calls.
C2_AsStated ==
  CrawlSourceSent =>
    LET n == Len(new_items)
        added == Len(history[Cur.name].ids) - Len(histBefore)
    IN  IF n > CRAWL_FLOOD_THRESHOLD
        THEN Cardinality(CallsOf(Cur.name)) = 1 /\ added = n
        ELSE Cardinality(CallsOf(Cur.name)) = n

\* C2 (amended): with n candidates, more than 3 give exactly 1 notifier call
\* and n - 1 identities appended to the source's history, plus the selected
\* one exactly when its send succeeded; at most 3 give exactly n calls and
\* one identity appended per successful send.  (Counted before the history is
\* cut to its last 50.)
C2_FloodBound ==
  CrawlSourceSent =>
    LET n == Len(new_items)
        added == Len(history[Cur.name].ids) - Len(histBefore)
        sent == {i \in CallsOf(Cur.name) : calls[i].ok}
    IN  IF n > CRAWL_FLOOD_THRESHOLD
        THEN /\ Cardinality(CallsOf(Cur.name)) = 1
             /\ added = (n - 1) + Cardinality(sent)
        ELSE /\ Cardinality(CallsOf(Cur.name)) = n
             /\ added = Cardinality(sent)

\* C2 witness (Scenario A): empty history, five articles dated D1 < ... < D5:
\* only the one dated D5 is notified and the history holds all five.
C2_Witness ==
  /\ CrawlSourceSent /\ Cur.name = "A"
  /\ upstream["A"] = CrawlFive /\ histBefore = <<>>
  /\ Len(new_items) = 5
  /\ Len(calls) = 1 /\ calls[1].id = 15 /\ calls[1].ok
  /\ Range(history["A"].ids) = {11, 12, 13, 14, 15}

\* the candidates of the source being processed, straight from the listing
CrawlCandidates ==
  {i \in 1..Len(upstream[Cur.name]) :
     /\ upstream[Cur.name][i].link # NoId
     /\ upstream[Cur.name][i].link \notin Range(histBefore)}

\* C3: when the flood guard fires, the one item handed to the notifier is a
\* candidate with the greatest timestamp among all candidates, and the
\* identity of every other candidate is appended to the source's history
\* without a notifier call.
C3_FloodPicksLatest ==
  (CrawlSourceSent /\ Cardinality(CrawlCandidates) > CRAWL_FLOOD_THRESHOLD) =>
    /\ Cardinality(CallsOf(Cur.name)) = 1
    /\ \A c \in CallsOf(Cur.name) :
         /\ \E i \in CrawlCandidates :
              /\ upstream[Cur.name][i].link = calls[c].id
              /\ parse_date_safe(upstream[Cur.name][i].published) = calls[c].t
         /\ \A i \in CrawlCandidates :
              parse_date_safe(upstream[Cur.name][i].published) <= calls[c].t
         /\ \E pick \in CrawlCandidates :
              /\ upstream[Cur.name][pick].link = calls[c].id
              /\ \A id \in Range(history[Cur.name].ids) \cup
                           {upstream[Cur.name][i].link : i \in CrawlCandidates} :
                   \* each identity is in the history once per candidate
                   \* carrying it, the picked one counted only when sent
                   Cardinality({k \in 1..Len(history[Cur.name].ids) :
                                  history[Cur.name].ids[k] = id})
                   = Cardinality({k \in 1..Len(histBefore) :
                                    histBefore[k] = id})
                     + Cardinality({i \in CrawlCandidates \ {pick} :
                                      upstream[Cur.name][i].link = id})
                     + (IF id = calls[c].id /\ calls[c].ok THEN 1 ELSE 0)

\* C3 witness: the five unordered articles, the send of the newest fails:
\* the four older ones are in the history, the newest is not.
C3_Witness ==
  /\ CrawlSourceSent /\ Cur.name = "A"
  /\ upstream["A"] = CrawlFive /\ histBefore = <<>>
  /\ Len(calls) = 1 /\ calls[1].id = 15 /\ calls[1].t = 50 /\ ~calls[1].ok
  /\ Range(history["A"].ids) = {11, 12, 13, 14}

\* position of the first item with identity id in a listing (0: not listed)
ListedAt(listing, id) ==
  LET at == {k \in 1..Len(listing) :
               (IF prog \in {"arxiv", "release"} THEN listing[k].gid
                ELSE IF prog = "crawl" THEN listing[k].link
                ELSE PostId(listing[k])) = id}
  IN  IF at = {} THEN 0 ELSE CHOOSE k \in at : \A m \in at : k <= m

\* the notifier calls made for one source come in non-decreasing timestamp order
CallsAscending ==
  \A i \in 1..Len(calls) : \A j \in 1..Len(calls) :
    (i < j /\ calls[i].src = calls[j].src) => calls[i].t <= calls[j].t

Delivered == {i \in 1..Len(calls) : calls[i].ok}

\* C5: in every state of a run of check_arxiv the successful deliveries made
\* so far, over all searches, are at most MAX_NOTIFICATIONS_PER_RUN, and the
\* counter the code keeps is their number.
C5_RunBudget ==
  prog = "arxiv" =>
    /\ Cardinality(Delivered) <= MAX_NOTIFICATIONS_PER_RUN
    /\ notifications_sent = Cardinality(Delivered)

\* C5 witness: papers 1, 2, 4 of search A and 5, 6 of search B were delivered;
\* the inner loop stands in front of paper 10 of search B, a match that is
\* neither seen nor notified, with the budget used up.
C5_Witness ==
  /\ prog = "arxiv" /\ pc = "paper" /\ si = 2
  /\ Cardinality(Delivered) = MAX_NOTIFICATIONS_PER_RUN
  /\ [i \in 1..Len(calls) |-> calls[i].id] = << 1, 2, 4, 5, 6 >>
  /\ results # <<>> /\ Head(results).gid = 10
  /\ 10 \notin seen /\ ~NotMatched(Cur, Head(results))

\* the identities of the papers the run has not looked at yet: the rest of
\* the current result list and the results of the searches not yet fetched
Unprocessed ==
  LET later == {k \in 1..Len(Config) : k >= (IF pc = "paper" THEN si + 1 ELSE si)}
  IN  ({results[k].gid : k \in 1..Len(results)} \cup
       UNION {{upstream[Config[k].name][m].gid :
                 m \in 1..Len(upstream[Config[k].name])} : k \in later})
      \ seen

\* C6: once the run budget of check_arxiv is used up, no step of that run
\* calls the notifier again, none records another identity, and what is
\* written to the history file holds no identity of a paper the run has not
\* processed, so that these papers are candidates on the next run.
C6_BudgetStopsRun ==
  [][(/\ prog = "arxiv" /\ pc \in {"loop", "paper", "save"}
      /\ notifications_sent >= MAX_NOTIFICATIONS_PER_RUN)
     => /\ calls' = calls
        /\ seen' = seen
        /\ new_history_items' = new_history_items
        /\ notifications_sent' = notifications_sent
        /\ Unprocessed \cap Range(arxivFile') = {}
        /\ pc' \in {"loop", "save", "done", "killed"}]_vars

\* C6 witness: the run ended with the budget used up inside search B: paper
\* 10 of B and search C (whose papers 7 and 8 all qualify) were left
\* alone, none of them is in the history file, the five delivered ones are.
C6_Witness ==
  /\ prog = "arxiv" /\ pc = "done"
  /\ notifications_sent = MAX_NOTIFICATIONS_PER_RUN
  /\ Len(calls) = MAX_NOTIFICATIONS_PER_RUN
  /\ results # <<>> /\ Head(results).gid = 10
  /\ fetchSt["C"] = "no" /\ upstream["C"] = ArxC
  /\ {7, 8, 10} \cap Range(arxivFile) = {}
  /\ {1, 2, 4, 5, 6} \subseteq Range(arxivFile)

\* the configured maximum of a source's history in the dict-shaped scripts
\* that truncate
MaxHistory ==
  CASE prog = "rss" -> RSS_MAX_HISTORY
    [] prog = "crawl" -> CRAWL_MAX_HISTORY
    [] prog = "youtube" -> YT_MAX_HISTORY

C8_FailedSendSkipped ==
  [][(/\ Len(calls') = Len(calls) + 1
      /\ ~calls'[Len(calls')].ok)
     => /\ history' = history
        /\ seen' = seen
        /\ new_history_items' = new_history_items
        /\ notifications_sent' = notifications_sent
        /\ updated_history' = updated_history
        /\ file' = file /\ arxivFile' = arxivFile
        /\ pc' = pc /\ si' = si
        /\ IF prog = "arxiv"
           THEN /\ results # <<>> /\ results' = Tail(results)
                /\ Head(results).gid = calls'[Len(calls')].id
           ELSE to_send # <<>> /\ to_send' = Tail(to_send)]_vars

\* C8 witness: of the three crawl articles 1, 2, 3 the send of 1 failed, the
\* loop went on and delivered 2; 1 is not in the history, 2 is, 3 is next.
C8_Witness ==
  /\ prog = "crawl" /\ pc = "send" /\ Cur.name = "A"
  /\ upstream["A"] = CrawlSmall /\ histBefore = <<>>
  /\ Len(calls) = 2
  /\ calls[1].id = 1 /\ ~calls[1].ok
  /\ calls[2].id = 2 /\ calls[2].ok
  /\ history["A"].ids = << 2 >>
  /\ Len(to_send) = 1 /\ Head(to_send).link = 3

\* the lookback window of a feed, in hours
Lookback(src) ==
  IF prog = "rss"
  THEN check_hours(CHOOSE c \in Range(Config) : c.name = src) * LOOKBACK_FACTOR
  ELSE YT_LOOKBACK_HOURS

\* the feed src was parsed in this run and item id got a notifier call
CalledFor(src, id) == \E i \in CallsOf(src) : calls[i].id = id

\* C9 as stated (rss and youtube): at the end of a run, every item whose send
\* failed in an earlier run, that the feed still returns and that is not
\* marked seen, was a candidate again (it got a notifier call); and a run
\* whose only notifier call failed left the history file as it was.
C9_AsStated ==
  (prog \in {"rss", "youtube"} /\ pc = "done") =>
    /\ \A f \in failedBefore :
         (/\ fetchSt[f[1]] = "ok"
          /\ ListedAt(upstream[f[1]], f[2]) > 0
          /\ f[2] \notin StartIds(f[1]))
         => CalledFor(f[1], f[2])
    /\ (Len(calls) = 1 /\ ~calls[1].ok) => file = startFile

\* C9 (amended): in rss_checker and youtube_checker, every item the feed
\* returns in a run, whose identity is not marked seen and whose timestamp is
\* still inside the lookback window of that run (newer than now - 3 *
\* check_hours for rss, now - 30 h for youtube; not a Short), is a candidate
\* in that run, whether or not its send failed or was missed before; an
\* item that has left the window is not.  A run whose only notifier call
\* failed leaves the history file as it was.
C9_RetriedWhileRecent ==
  (prog \in {"rss", "youtube"} /\ pc = "done") =>
    /\ \A src \in Names : \A k \in 1..Len(upstream[src]) :
         LET entry == upstream[src][k]
             inWindow == /\ get_entry_date(entry).ok
                         /\ get_entry_date(entry).t > now - Lookback(src)
         IN  (/\ fetchSt[src] = "ok"
              /\ PostId(entry) \notin StartIds(src)
              /\ ~(prog = "youtube" /\ is_youtube_short(entry)))
             => (CalledFor(src, PostId(entry)) <=> inWindow)
    /\ (Len(calls) = 1 /\ ~calls[1].ok) => file = startFile

\* C9 witness: the send of rss post 2 (dated 97) failed in the first run; an
\* hour later the feed still lists it, the second run tries it again and
\* delivers it.
C9_Witness ==
  /\ prog = "rss" /\ pc = "done" /\ runs = 2 /\ now = StartNow + 1
  /\ << "A", 2 >> \in failedBefore
  /\ upstream["A"] = RssThree
  /\ 2 \notin StartIds("A")
  /\ \E i \in CallsOf("A") : calls[i].id = 2 /\ calls[i].ok
  /\ 2 \in Range(file["A"].ids)

\* the run that just ended was a repetition: it started on the history the
\* run before it left, every source returned what it returned then (same
\* fetch outcome, same items), and before it no notifier call had failed and
\* no run had stopped on its budget
RepeatedRun ==
  /\ pc = "done" /\ runs >= 2
  /\ sameItems /\ fetchSt = prevFetchSt
  /\ failedBefore = {} /\ ~cutBefore

\* C10 as stated: a run that repeats the previous one on the same items and
\* the history it left makes no notifier call and leaves the history file as
\* it found it.
C10_Idempotent ==
  RepeatedRun =>
    /\ calls = <<>>
    /\ file = startFile
    /\ arxivFile = startArxivFile

\* C10, the failing case reached: a crawl source lists 51 articles, the first
\* run (empty history, flood guard) delivered the newest and its file holds
\* 50 identities; the second run, on the same listing, delivers the second
\* newest.
C10_Witness ==
  /\ prog = "crawl" /\ RepeatedRun
  /\ upstream["A"] = CrawlBig
  /\ Len(startFile["A"].ids) = CRAWL_MAX_HISTORY
  /\ Len(calls) = 1 /\ calls[1].ok
  /\ calls[1].id = 100 + BigLen - 1
  /\ 100 + BigLen \in Range(startFile["A"].ids)

\* the run changed the identities it holds in memory: something was delivered
\* or suppressed (arxiv: recorded)
Mutated ==
  IF prog = "arxiv" THEN new_history_items # <<>>
  ELSE \E n \in Names : history[n].ids # startFile[n].ids

\* C11 as stated: a run writes its history file only if it changed the
\* history; a run that delivered and suppressed nothing writes nothing.
C11_WriteOnlyIfMutated ==
  pc = "done" => (wrote => Mutated)

\* C11, the failing case reached: a run of check_arxiv that found nothing new
\* (no notifier call, no identity recorded) has written the file all the same.
C11_Witness ==
  /\ prog = "arxiv" /\ pc = "done"
  /\ calls = <<>> /\ new_history_items = <<>>
  /\ \E n \in Names : fetchSt[n] = "ok" /\ upstream[n] # <<>>
  /\ wrote /\ arxivFile = startArxivFile

\* the sources whose fetch (or extraction) failed in the run that just ended
FailedSources == {n \in Names : fetchSt[n] = "fail"}

\* C12 as stated: for a source whose fetch failed, the persisted store is
\* what was loaded: no key created, no identity added or removed, also when
\* another source made the run write the file.
C12_AsStated ==
  (prog \in DictProgs /\ pc = "done") =>
    \A n \in FailedSources : file[n] = startFile[n]

\* C12 (amended): for a source whose fetch failed, the persisted list of
\* identities is the one that was loaded.  In crawl_checker, rss_checker and
\* youtube_checker the key of the source is created (with an empty list)
\* before the fetch, so when another source makes the run write the file a
\* source that had no key is persisted with an empty list; when the run
\* writes nothing, and in release_checker always, the entry is untouched.
C12_FailedFetchKeepsIds ==
  (prog \in DictProgs /\ pc = "done") =>
    \A n \in FailedSources :
      /\ file[n].ids = startFile[n].ids
      /\ file[n].has = (startFile[n].has \/ (wrote /\ prog # "release"))

\* C12 witness: crawl source B had no key and its fetch failed; source A
\* delivered, the file was written, and B is in it with an empty list.
C12_Witness ==
  /\ prog = "crawl" /\ pc = "done" /\ wrote
  /\ fetchSt["A"] = "ok" /\ fetchSt["B"] = "fail"
  /\ \E i \in CallsOf("A") : calls[i].ok
  /\ startFile["B"] = NoKey
  /\ file["B"] = Key(<<>>)

\* a run is under way
InRun == pc \in {"loop", "send", "paper", "save"}

\* the sources before the loop position have been dealt with, those after it
\* have not been touched: the loop goes through the configuration in order
ProcessedInOrder ==
  InRun =>
    \A k \in 1..Len(Config) :
      /\ k < si => fetchSt[Config[k].name] # "no"
      /\ k > si => fetchSt[Config[k].name] = "no"

\* a step in which a fetch fails stays in the loop, at the next source, with
\* histories, notifier log and file as they were
FailedFetchContinues ==
  (\E n \in Names : fetchSt[n] # "fail" /\ fetchSt'[n] = "fail")
  => /\ pc' = "loop" /\ si' = si + 1
     /\ calls' = calls /\ file' = file /\ arxivFile' = arxivFile
     /\ \A n \in Names : history'[n].ids = history[n].ids

\* how far a run is from its end: sources left, phase within the source,
\* items left in the inner loop
Rank ==
  << IF pc = "save" THEN 0 ELSE Len(Config) + 1 - si,
     IF pc = "loop" THEN 2 ELSE IF pc = "save" THEN 0 ELSE 1,
     IF prog = "arxiv" THEN Len(results) ELSE Len(to_send) >>

LexLess(x, y) ==
  \/ x[1] < y[1]
  \/ x[1] = y[1] /\ x[2] < y[2]
  \/ x[1] = y[1] /\ x[2] = y[2] /\ x[3] < y[3]

\* every step of a run either is its persistence step, or brings the run
\* closer to it, or is the run's termination from outside
RunAdvances ==
  InRun => \/ pc' = "done"
           \/ pc' = "killed"
           \/ InRun' /\ LexLess(Rank', Rank) /\ Rank'[1] >= 0

\* the run is never stuck: at each position the loop has a step to take
\* whatever the sources and the notifier do
CanStep ==
  \/ pc = "save"
  \/ pc = "send"
  \/ pc = "paper"
  \/ pc = "loop" /\ prog \in DictProgs /\ si > Len(Config)
  \/ pc = "loop" /\ prog \in {"rss", "youtube"} /\ si <= Len(Config)
  \/ pc = "loop" /\ prog = "crawl" /\ si <= Len(Config)
       /\ Cur.extractor = "anthropic"
  \/ pc = "loop" /\ prog = "release" /\ si <= Len(Config)
       /\ (upstream[Cur.name] # <<>> \/ faults < MaxFaults)
  \/ pc = "loop" /\ prog = "arxiv"

CandidatesAtStart(n) ==
  {i \in 1..Len(upstream[n]) :
     /\ upstream[n][i].link # NoId
     /\ upstream[n][i].link \notin Range(startFile[n].ids)}

C15_NoIdentityDropped ==
  prog \in {"crawl", "rss", "youtube"} =>
    /\ \A i \in 1..Len(calls) : calls[i].id # NoId
    /\ \A n \in Names : NoId \notin Range(history[n].ids) \cup Range(file[n].ids)

\* C15, the failing case reached: the rss feed holds an entry with neither id
\* nor link, dated inside the window; the run has called the notifier for it
\* and the file now holds the missing identity (None) as an entry.
C15_Witness ==
  /\ prog = "rss" /\ pc = "done"
  /\ upstream["A"] = RssOdd
  /\ \E i \in CallsOf("A") : calls[i].id = NoId /\ calls[i].ok
  /\ NoId \in Range(file["A"].ids)
  /\ NoId \notin Range(startFile["A"].ids)

\* the timestamp of a listed item is missing or does not parse
UnknownDate(item) ==
  IF prog = "crawl" THEN ~ToUtc(item.published).ok
  ELSE ~get_entry_date(item).ok

\* the identity the script uses for a listed item
IdentityOf(item) == IF prog = "crawl" THEN item.link ELSE PostId(item)

\* C16 as stated: at the end of a run, for every unseen item of a fetched
\* source whose timestamp is missing or unparseable, no notifier call was
\* made and its identity is in the source's history.
C16_UnknownDateRecorded ==
  (prog \in {"crawl", "rss", "youtube"} /\ pc = "done") =>
    \A n \in Names : \A k \in 1..Len(upstream[n]) :
      LET item == upstream[n][k]
      IN  (/\ fetchSt[n] = "ok"
           /\ IdentityOf(item) # NoId
           /\ IdentityOf(item) \notin StartIds(n)
           /\ UnknownDate(item))
          => /\ ~CalledFor(n, IdentityOf(item))
             /\ IdentityOf(item) \in Range(history[n].ids)

\* C16, one failing case reached: crawl source B lists article 7 without a
\* date and has two candidates; 7 was handed to the notifier, dated at the
\* epoch, before article 8.
C16_Witness ==
  /\ prog = "crawl" /\ pc = "done"
  /\ upstream["B"] = CrawlOdd /\ startFile["B"].ids = << 6, 12 >>
  /\ Cardinality(CallsOf("B")) = 2
  /\ \E i \in CallsOf("B") : \E j \in CallsOf("B") :
       /\ i < j
       /\ calls[i].id = 7 /\ calls[i].t = Epoch /\ calls[i].ok
       /\ calls[j].id = 8

\* C16, the other failing case reached: the rss feed lists entry 7 without
\* any date; the run made no call for it and did not record it.
C16_WitnessRss ==
  /\ prog = "rss" /\ pc = "done"
  /\ upstream["A"] = RssOdd /\ fetchSt["A"] = "ok" /\ wrote
  /\ ~CalledFor("A", 7)
  /\ 7 \notin Range(file["A"].ids)

\* how often an identity occurs in a list
Count(list, id) == Cardinality({k \in 1..Len(list) : list[k] = id})

\* C17 as stated: within one run an identity of a source is handed to the
\* notifier at most once and appended to the source's history at most once,
\* also when the fetch holds it twice.
C17_DuplicatesCollapse ==
  (prog \in {"crawl", "rss", "youtube"} /\ pc \in {"loop", "send", "done"}) =>
    \A n \in Names :
      \A id \in {IdentityOf(upstream[n][k]) : k \in 1..Len(upstream[n])} :
        /\ Cardinality({i \in CallsOf(n) : calls[i].id = id}) <= 1
        /\ Count(history[n].ids, id) <= Count(startFile[n].ids, id) + 1

\* C17, the failing case reached: the rss feed lists entry 5 twice; the run
\* has notified it twice and the file holds its identity twice.
C17_Witness ==
  /\ prog = "rss" /\ pc = "done"
  /\ upstream["A"] = RssOdd
  /\ Cardinality({i \in CallsOf("A") : calls[i].id = 5 /\ calls[i].ok}) = 2
  /\ Count(startFile["A"].ids, 5) = 0
  /\ Count(file["A"].ids, 5) = 2

\* the identities the run has added to the history of source src so far
\* (check_arxiv collects them in new_history_items, for all searches)
AddedIds(src) ==
  IF prog = "arxiv" THEN Range(new_history_items)
  ELSE Range(history[src].ids) \ StartIds(src)

\* the notifier accepted an item of src with this identity
DeliveredOk(src, id) == \E i \in CallsOf(src) : calls[i].ok /\ calls[i].id = id

\* the identities of the candidates of src when the flood guard of
\* check_crawlers fired for it (none when it did not)
FloodSuppressed(src) ==
  IF /\ prog = "crawl" /\ fetchSt[src] = "ok"
     /\ Cardinality(CandidatesAtStart(src)) > CRAWL_FLOOD_THRESHOLD
  THEN {upstream[src][i].link : i \in CandidatesAtStart(src)}
  ELSE {}

\* check_arxiv fetched a search that has keywords, none of which occurs in
\* the paper with this identity
FailedKeywords(id) ==
  /\ prog = "arxiv"
  /\ \E k \in 1..Len(ArxivConfig) :
       LET s == ArxivConfig[k]
       IN  /\ fetchSt[s.name] = "ok" /\ s.keywords
           /\ \E j \in 1..Len(upstream[s.name]) :
                /\ upstream[s.name][j].gid = id
                /\ s.name \notin upstream[s.name][j].match

\* C18 as stated: every identity a run has added to a history so far was delivered
\* successfully or suppressed by the flood guard; keyword matching in
\* check_arxiv adds nothing.
C18_AsStated ==
  pc # "idle" =>
    \A n \in Names :
      LET suppressed == FloodSuppressed(n)
      IN  \A id \in AddedIds(n) :
            \/ IF prog = "arxiv" THEN \E m \in Names : DeliveredOk(m, id)
               ELSE DeliveredOk(n, id)
            \/ id \in suppressed

\* C18, amended: every identity a run has added to a history so far was delivered
\* successfully, or suppressed by the flood guard, or - in check_arxiv - is
\* a paper that matched none of the keywords of a search that returned it.
C18_AddedOnlyWhenSettled ==
  pc # "idle" =>
    \A n \in Names :
      LET suppressed == FloodSuppressed(n)
      IN  \A id \in AddedIds(n) :
            \/ IF prog = "arxiv" THEN \E m \in Names : DeliveredOk(m, id)
               ELSE DeliveredOk(n, id)
            \/ id \in suppressed
            \/ FailedKeywords(id)

\* C18, the case reached: check_arxiv has finished; paper 3, which matches
\* no keyword of search A, was never handed to the notifier and is in the
\* file the run has written, next to papers that were delivered.
C18_Witness ==
  /\ prog = "arxiv" /\ pc = "done"
  /\ 3 \notin Range(startArxivFile)
  /\ 3 \in Range(arxivFile)
  /\ \A i \in 1..Len(calls) : calls[i].id # 3
  /\ \E i \in 1..Len(calls) : calls[i].ok /\ calls[i].id \in Range(arxivFile)

\* check_arxiv is at a paper that was not in the history when the run
\* started, that passes the keyword test of the search being processed, and
\* that the run has not handed to the notifier; the budget is not used up
NewMatchingPaperNext ==
  /\ prog = "arxiv" /\ pc = "paper" /\ results # <<>>
  /\ ~BudgetSpentInner
  /\ Head(results).gid \notin StartIds(Cur.name)
  /\ ~NotMatched(Cur, Head(results))
  /\ ~\E i \in 1..Len(calls) : calls[i].id = Head(results).gid

\* C19 as stated, for check_arxiv: what another search has recorded does not
\* count for this search.  When the loop passes a paper that is new, matches
\* the search's keywords and was never handed to the notifier in this run,
\* it hands it to the notifier.
C19_OwnHistoryOnly ==
  [][(NewMatchingPaperNext /\ results' = Tail(results)) =>
       /\ Len(calls') = Len(calls) + 1
       /\ calls'[Len(calls')].id = Head(results).gid
       /\ calls'[Len(calls')].src = Cur.name]_vars

\* C19, the failing case reached: the run is over; search B was fetched and
\* delivered paper 5, which comes after paper 3 in its results; paper 3
\* matches B's keywords, was not in the history at the start and was never
\* handed to the notifier, and the file now holds it as seen.
C19_Witness ==
  /\ prog = "arxiv" /\ pc = "done"
  /\ upstream["A"] = ArxA /\ upstream["B"] = ArxB
  /\ fetchSt["A"] = "ok" /\ fetchSt["B"] = "ok"
  /\ 3 \notin Range(startArxivFile)
  /\ \E i \in CallsOf("B") : calls[i].id = 5 /\ calls[i].ok
  /\ ~\E i \in 1..Len(calls) : calls[i].id = 3
  /\ 3 \in Range(arxivFile)

\* C20: in a run of rss_checker outside the morning window, a feed whose
\* check interval is 24 hours or more (the default) is not fetched, gets no
\* notifier call, and its entry in the history - the key included - is the
\* one loaded, in memory and in the file, whatever the run does for the
\* other feeds.
C20_DailySkippedEntirely ==
  (prog = "rss" /\ pc \in {"loop", "send", "done", "killed"}
                /\ ~is_morning_run) =>
    \A k \in 1..Len(RssConfig) :
      check_hours(RssConfig[k]) >= DAILY_HOURS =>
        LET n == RssConfig[k].name
        IN  /\ fetchSt[n] \in {"no", "skip"}
            /\ CallsOf(n) = {}
            /\ history[n] = startFile[n]
            /\ file[n] = startFile[n]

\* C20, the case reached: a run at 100 (07:30 in Tehran) is over; the daily
\* feed B lists a post inside its lookback window and has no key; it was
\* skipped and still has no key in memory or in the file, although the run
\* delivered a post of feed A and wrote the file.
C20_Witness ==
  /\ prog = "rss" /\ pc = "done" /\ now = 100
  /\ upstream["B"] = RssDaily
  /\ ~startFile["B"].has
  /\ fetchSt["B"] = "skip"
  /\ ~history["B"].has /\ ~file["B"].has
  /\ \E i \in CallsOf("A") : calls[i].ok
  /\ wrote /\ file["A"].has /\ file["A"] # startFile["A"]

\* C21 as stated: whatever the history file holds, loading it never ends a
\* run with an error (a file that is missing, not parseable or of the wrong
\* shape counts as an empty history and the run goes on).
C21_LoadNeverFatal == pc # "crashed"

\* C21, the failing case reached: rss_checker started on a history file that
\* is not JSON; the run has ended in load_history, no source was looked at
\* and the file is as it was.
C21_Witness ==
  /\ prog = "rss" /\ fileState = "corrupt" /\ pc = "crashed"
  /\ runs = 1 /\ calls = <<>>
  /\ \A n \in Names : fetchSt[n] = "no"

\* check_arxiv, for comparison: a run on a file that is not JSON has gone
\* through all searches as on an empty history, has called the notifier and
\* is about to write the file
C21_ArxivLoadsEmpty ==
  /\ prog = "arxiv" /\ pc = "save" /\ fileState = "corrupt"
  /\ seen # {} /\ Len(calls) > 0
  /\ \A k \in 1..Len(ArxivConfig) : fetchSt[ArxivConfig[k].name] = "ok"

\* C22 as stated: in a run without the config file, or without the notifier
\* credentials, nothing is delivered and the history file stays as it was
\* before the run.
C22_NoConfigNoEffect ==
  (~config_exists \/ ~credentials) =>
    /\ \A i \in 1..Len(calls) : ~calls[i].ok
    /\ file = startFile
    /\ arxivFile = startArxivFile

\* the half of C22 that the scripts keep: without the config file a run
\* returns at once, whatever else is wrong
C22_NoConfigFile ==
  ~config_exists =>
    /\ pc \in {"idle", "noconfig"}
    /\ calls = <<>> /\ file = startFile /\ arxivFile = startArxivFile
    /\ \A n \in Names : fetchSt[n] = "no"

\* C22, the failing case reached: crawl_checker ran without credentials on a
\* source with five unseen articles; no call succeeded, and the run wrote
\* the four suppressed identities into the file.
C22_Witness ==
  /\ prog = "crawl" /\ ~credentials /\ pc = "done" /\ runs = 1
  /\ upstream["A"] = CrawlFive /\ startFile = NoFile
  /\ Len(calls) > 0 /\ \A i \in 1..Len(calls) : ~calls[i].ok
  /\ wrote /\ Len(file["A"].ids) = 4

\* the recency window of a feed, in hours, as C23 gives it: three times the
\* configured check interval in rss_checker (24 h when none is configured),
\* 30 h in youtube_checker
Window(src) ==
  IF prog = "youtube" THEN 30
  ELSE LET c == CHOOSE c \in Range(RssConfig) : c.name = src
       IN  3 * (IF c.check_hours = 0 THEN 24 ELSE c.check_hours)

\* the entries of feed src that are unseen at the start of the run and carry
\* a date that parses
UnseenDated(src) ==
  {k \in 1..Len(upstream[src]) :
     /\ PostId(upstream[src][k]) \notin StartIds(src)
     /\ get_entry_date(upstream[src][k]).ok}

\* C23 as stated: at the end of a run of check_feeds, every notifier call of
\* a fetched feed carries a timestamp t >= now - window, and every unseen
\* entry with t >= now - window was a candidate (it got a notifier call).
C23_AsStated ==
  (prog \in {"rss", "youtube"} /\ pc = "done") =>
    \A src \in Names : fetchSt[src] = "ok" =>
      /\ \A i \in CallsOf(src) : calls[i].t >= now - Window(src)
      /\ \A k \in UnseenDated(src) :
           get_entry_date(upstream[src][k]).t >= now - Window(src)
             => CalledFor(src, PostId(upstream[src][k]))

\* C23, amended: the window is open at its old end.  Every notifier call of
\* a fetched feed carries a timestamp t > now - window, and every unseen
\* entry with t > now - window - in youtube_checker: that is not a Short -
\* got a notifier call.
C23_WindowStrict ==
  (prog \in {"rss", "youtube"} /\ pc = "done") =>
    \A src \in Names : fetchSt[src] = "ok" =>
      /\ \A i \in CallsOf(src) : calls[i].t > now - Window(src)
      /\ \A k \in UnseenDated(src) :
           (/\ get_entry_date(upstream[src][k]).t > now - Window(src)
            /\ ~(prog = "youtube" /\ is_youtube_short(upstream[src][k])))
             => CalledFor(src, PostId(upstream[src][k]))

\* C23, the case reached: a run of rss_checker at 98 over the three posts of
\* feed A (window 3 h); posts 1 and 2, dated 96 and 97, were handed to the
\* notifier, post 3, dated 95 = now - window, was not.
C23_Witness ==
  /\ prog = "rss" /\ pc = "done" /\ now = 98
  /\ upstream["A"] = RssThree /\ fetchSt["A"] = "ok"
  /\ startFile = NoFile
  /\ CalledFor("A", 1) /\ CalledFor("A", 2)
  /\ ~CalledFor("A", 3)

\* the publication time of the article with link id in the listing of the
\* crawl source the loop is at (-1: the source does not list it)
PublishedAt(id) ==
  LET k == ListedAt(upstream[Cur.name], id)
  IN  IF k = 0 THEN -1 ELSE parse_date_safe(upstream[Cur.name][k].published)

\* C24 as stated, for check_crawlers: the step that cuts a source's history
\* to its maximum removes the chronologically oldest identities - no listed
\* article whose identity is removed is newer than a listed article whose
\* identity is kept.
C24_EvictsOldest ==
  [][(prog = "crawl" /\ pc = "send" /\ to_send = <<>> /\ pc' = "loop") =>
       LET before == Range(history[Cur.name].ids)
           after == Range(history'[Cur.name].ids)
       IN  \A e \in before \ after : \A r \in after :
             (PublishedAt(e) >= 0 /\ PublishedAt(r) >= 0)
               => PublishedAt(e) <= PublishedAt(r)]_vars

\* C24, the failing case reached: the source lists BigLen articles, 101 the
\* oldest; after a first run on an empty history (flood guard, the newest
\* delivered) the file holds 50 identities, the oldest and the newest among
\* them, and not the second newest.
C24_Witness ==
  /\ prog = "crawl" /\ pc = "done" /\ runs = 1
  /\ upstream["A"] = CrawlBig /\ startFile = NoFile
  /\ Len(file["A"].ids) = CRAWL_MAX_HISTORY
  /\ 101 \in Range(file["A"].ids)
  /\ 100 + BigLen \in Range(file["A"].ids)
  /\ 100 + BigLen - 1 \notin Range(file["A"].ids)

\* the step writes the history file
Writes == file' # file \/ arxivFile' # arxivFile \/ (~wrote /\ wrote')

-----------------------------------------------------------------------------
(* C26: the extractor's scan *)

\* the value under the key of the first list section of a well-formed
\* fragment; Absent when the fragment has none or a section before it is
\* no dict
RECURSIVE ListValue(_, _)
ListValue(secs, i) ==
  IF i > Len(secs) \/ ~secs[i].dict THEN Absent
  ELSE IF secs[i].type = "articleList" THEN secs[i].articles
  ELSE IF secs[i].type = "publicationList" THEN secs[i].posts
  ELSE ListValue(secs, i + 1)

\* the record list a fragment yields: empty unless the fragment has the
\* expected structure and the value is a list
Yield(f) ==
  IF f.payload = "sections" /\ ListValue(f.sections, 1).shape = "list"
  THEN ListValue(f.sections, 1).items
  ELSE <<>>

\* the records of the first fragment that yields a non-empty record list
FirstYield(doc) ==
  LET idx == {i \in 1..Len(doc) : Yield(doc[i]) # <<>>}
  IN  IF idx = {} THEN <<>>
      ELSE Standardize(Yield(doc[CHOOSE i \in idx : \A j \in idx : i <= j]))

\* C26, as the spec states it: a call of extract raises nothing and returns
\* the records of the first fragment, in document order, that yields a
\* non-empty record list, the empty list when there is none; fragments that
\* are malformed or lack the structure are skipped, later ones do not count.
C26_AsStated ==
  extracted # NotCalled => extracted = Returned(FirstYield(html))

\* a fragment whose "sections" cannot be iterated stands before the first
\* fragment that yields records, and the call has raised TypeError
C26_Witness ==
  /\ extracted = Raised("TypeError")
  /\ \E i \in 1..Len(html) :
       /\ html[i].payload = "noiter"
       /\ \A j \in 1..(i - 1) : Yield(html[j]) = <<>>
       /\ \E j \in (i + 1)..Len(html) : Yield(html[j]) # <<>>

\* a fragment the except clause does not cover: "sections" that cannot be
\* iterated, or a list section whose value is null, a number, a string or a
\* dict
Uncovered(f) ==
  \/ f.payload = "noiter"
  \/ /\ f.payload = "sections"
     /\ ListValue(f.sections, 1).shape \in {"null", "number", "string"}

\* on a page without such a fragment the call does what C26 says
C26_CoveredPages ==
  (extracted # NotCalled /\ \A i \in 1..Len(html) : ~Uncovered(html[i]))
    => extracted = Returned(FirstYield(html))

\* a list section whose value is a string stops the scan: the records of a
\* later fragment are not returned
C26_StringStops ==
  /\ extracted = Returned(<<>>)
  /\ FirstYield(html) # <<>>
  /\ \A i \in 1..Len(html) : html[i].payload # "noiter"

-----------------------------------------------------------------------------
(* C27: settled identities over several runs *)

\* every item the sources listed during the last finished run is still listed
OnlyGrown == \A n \in Names : Range(prevUpstream[n]) \subseteq Range(upstream[n])

\* a run of check_crawlers or check_arxiv is under way
CrawlOrArxivRunning ==
  prog \in {"crawl", "arxiv"} /\ pc \in {"loop", "send", "paper", "save"}

\* C27, as the spec implies it: while the sources only grow, no run of
\* check_crawlers or check_arxiv hands the notifier an identity that an
\* earlier completed run delivered or marked seen, whatever the length of
\* the listings.
C27_NeverAgain ==
  (CrawlOrArxivRunning /\ OnlyGrown) =>
    \A i \in 1..Len(calls) : << calls[i].src, calls[i].id >> \notin settled

\* the failing case reached: a crawl source lists 51 articles; the first run
\* delivered the newest and marked the other 50 seen, the second run, on the
\* same listing, has handed the second newest to the notifier
C27_Witness ==
  /\ prog = "crawl" /\ pc \in {"loop", "send"} /\ runs = 2 /\ OnlyGrown
  /\ upstream["A"] = CrawlBig
  /\ Cardinality({id \in 101..(100 + BigLen) : << "A", id >> \in settled}) = BigLen
  /\ \E i \in 1..Len(calls) : calls[i].src = "A" /\ calls[i].id = 100 + BigLen - 1

\* as long as no list a run starts from has reached its maximum, C27 holds
C27_BelowMaximum ==
  (/\ CrawlOrArxivRunning /\ OnlyGrown
   /\ \A n \in Names : Len(startFile[n].ids) < CRAWL_MAX_HISTORY
   /\ Len(startArxivFile) < MAX_HISTORY_SIZE) =>
    \A i \in 1..Len(calls) : << calls[i].src, calls[i].id >> \notin settled

\* the same in check_arxiv, reached under ArxivFullSpec: one search lists a
\* paper that matches, the next 100 papers that do not; the first run
\* delivered the paper and recorded the 100, the second run, on the same
\* listings, hands the paper to the notifier again
C27_ArxivAgain ==
  /\ prog = "arxiv" /\ runs = 2 /\ pc \in {"loop", "paper", "save"} /\ OnlyGrown
  /\ upstream["A"] = ArxOne /\ upstream["B"] = ArxFull
  /\ << "A", 201 >> \in settled /\ 201 \notin Range(startArxivFile)
  /\ \E i \in 1..Len(calls) : calls[i].id = 201

-----------------------------------------------------------------------------
(* C28: check_releases *)

\* tag_name of the latest release the run fetched for repo n
FetchedTag(n) == upstream[n][1].gid

\* the repos of the config file
Repos == {ReleaseConfig[k].name : k \in 1..Len(ReleaseConfig)}

\* C28: in a run of check_releases the notifier is called for a repo only
\* when its fetch succeeded with a non-empty tag that differs from the
\* history entry the run loaded, and with that tag; once the run is over,
\* it has been called for every such repo.  The entry of a repo is the tag
\* when the notifier accepted it, and otherwise what the run loaded, so a
\* failed fetch or a failed send changes no entry; the file the run leaves
\* holds these entries, so the next run that fetches a tag whose send failed
\* calls the notifier with it again.
C28_ReleaseRule ==
  (prog = "release" /\ pc \in {"loop", "send", "done"}) =>
    \A n \in Repos :
      LET due == /\ fetchSt[n] = "ok"
                 /\ FetchedTag(n) # NoId
                 /\ startFile[n] # Key(<< FetchedTag(n) >>)
      IN  /\ \A i \in CallsOf(n) : due /\ calls[i].id = FetchedTag(n)
          /\ Cardinality(CallsOf(n)) <= 1
          /\ (pc = "done" /\ due) => CallsOf(n) # {}
          /\ history[n] = IF \E i \in CallsOf(n) : calls[i].ok
                          THEN Key(<< FetchedTag(n) >>)
                          ELSE startFile[n]
          /\ pc = "done" => file[n] = history[n]

\* the send of a tag failed in the first run; the second run fetched the same
\* tag and called the notifier with it again, this time with success, while
\* the fetch of the other repo failed and its entry is what the run loaded
C28_Witness ==
  /\ prog = "release" /\ pc = "done" /\ runs = 2
  /\ << "A", FetchedTag("A") >> \in failedBefore
  /\ \E i \in CallsOf("A") : calls[i].ok /\ calls[i].id = FetchedTag("A")
  /\ history["A"] = Key(<< FetchedTag("A") >>)
  /\ fetchSt["B"] = "fail" /\ history["B"] = startFile["B"]
====
